---------------------------- MODULE Spec2Model ----------------------------
(***************************************************************************)
(* Leader routing (szabelin/zela-demo, leader_routing crate).              *)
(*                                                                         *)
(* One request at a time is followed through LeaderRouting::run and its    *)
(* three handlers run_precomputed, run_rpc and run_verify.  The handlers   *)
(* are async: every `.await` on the RPC client is a suspension point, so   *)
(* each handler is cut into one action per segment between awaits.  The    *)
(* authoritative source (get_slot, get_slot_leaders) is the environment:   *)
(* its answer is chosen when the awaiting segment resumes.                 *)
(*                                                                         *)
(* Values.  Option<T> is a sequence of length <= 1 (None = <<>>).  Text    *)
(* is a sequence of one-character strings, so that hex and base58          *)
(* renderings of the same bytes are different values.  A 32-byte identity  *)
(* is abbreviated to IdLen bytes (TLC integers are 32 bits wide, and the   *)
(* base58 rendering needs the identity as one number).                     *)
(***************************************************************************)
EXTENDS Integers, Sequences, FiniteSets

VARIABLES
    SLOT_TO_VALIDATOR,  \* the generated PHF map: slot offset -> identity
    pc,                 \* position of the request: idle, an await, or done
    mode,               \* Input.mode of the request in progress
    now_ms,             \* wall clock read by epoch::current_slot()
    precomputed_slot,   \* run_verify local (Option)
    precomputed_leader, \* run_verify local (Option of identity)
    rpc_slot,           \* run_rpc `slot` / run_verify `rpc_slot` (Option)
    calls,              \* RPC calls issued by the request, in order
    get_slot_resp,      \* answer of get_slot (Option)
    get_slot_leaders_resp, \* answer of get_slot_leaders (Option)
    result,             \* what the handler returned (Option of Result)
    prev,               \* clock value and result of the caller's previous
                        \* Precomputed request (Option), for comparing runs
    once,               \* the metadata singleton: "uninit", "running", "ready"
    EPOCH_CELL,         \* what the singleton holds (Option of a record)
    load_count,         \* how many times the packaged snapshot was loaded
    th_pc,              \* each worker thread's position
    th_meta,            \* the metadata each worker last observed (Option)
    th_slot,            \* the slot each worker computed (Option)
    th_leader,          \* each worker's last get_leader answer (Option)
    geo_file,           \* data/leader_geo.json: key -> region name (Option)
    geo_pc,             \* position of the build script's geo step
    geo_rest,           \* keys of the geo map not yet iterated
    geo_entries,        \* `entries`: (key bytes, region code) pairs pushed
    geo_valid,          \* `valid_entries` of the geo step
    geo_skipped,        \* `skipped_entries` of the geo step
    VALIDATOR_TO_REGION, \* the generated geo table: identity -> region code
    probe,              \* the last region call and its answer (Option)
    schedule_entries,   \* `schedule.entries` of data/schedule.json
    sched_pc,           \* position of the build script's schedule step
    sched_i,            \* index of the next entry of the loop
    phf_builder,        \* entries given to phf_codegen::Map
    valid_entries,      \* `valid_entries` of the schedule step
    skipped_entries,    \* `skipped_entries` of the schedule step
    schedule_exists,    \* data/schedule.json is present
    require_data,       \* LEADER_ROUTING_REQUIRE_DATA is set
    main_pc,            \* position of the build script's main
    EPOCH_RKYV,         \* the packaged metadata, epoch.rkyv (Option)
    params,             \* the "mode" field of the request's input (Option)
    handler,            \* the handler LeaderRouting::run dispatched to
    served,             \* mode and outcome of the previous request (Option)
    pf_pc,              \* position of PriorityFees::run
    pf_input,           \* its input `p` (Option)
    latest_slot,        \* select_blocks: `latest_slot` (Option)
    block_slots,        \* select_blocks: `block_slots`, the last listing
    select_calls,       \* the RPC calls select_blocks has issued
    pf_selected,        \* the slots select_blocks yields (Option)
    pf_queue,           \* the slots the loop of run has still to process
    total_fees,         \* run: `total_fees`
    nonvote_count,      \* run: `nonvote_count`
    total_count,        \* run: `total_count`
    latest_block,       \* run: `latest_block`
    vote_seen,          \* how many voting transactions the loop has met
    counted_fees,       \* the fees of the transactions it counted, sorted
    pf_result,          \* what run returned (Option)
    lookup_order        \* where run_verify's step 3 runs among its awaits

\* the state of one request
reqvars == <<pc, mode, now_ms, precomputed_slot, precomputed_leader,
             rpc_slot, calls, get_slot_resp, get_slot_leaders_resp, result,
             params, handler>>

\* what the caller remembers between requests
repeatvars == <<prev>>

\* the metadata singleton and the worker threads sharing it
workervars == <<once, EPOCH_CELL, load_count, th_pc, th_meta, th_slot,
                th_leader>>

\* the build script's geo step, its table and the region calls
geovars == <<geo_file, geo_pc, geo_rest, geo_entries, geo_valid, geo_skipped,
             VALIDATOR_TO_REGION, probe>>

\* the build script's schedule step
schedvars == <<schedule_entries, sched_pc, sched_i, phf_builder,
               valid_entries, skipped_entries>>

\* the build script's main and the metadata it packages
mainvars == <<schedule_exists, require_data, main_pc, EPOCH_RKYV>>

\* what is known of the request served before the current one
servedvars == <<served>>

\* the priority-fee procedure
selectvars == <<latest_slot, block_slots, select_calls, pf_selected>>
scanvars == <<total_fees, nonvote_count, total_count, latest_block,
              vote_seen, counted_fees>>
feevars == <<pf_pc, pf_input, pf_queue, pf_result, selectvars, scanvars>>

\* the place of run_verify's precomputed lookup
ordervars == <<lookup_order>>

\* everything that is not the request in progress or the leader table
auxvars == <<repeatvars, workervars, geovars, schedvars, mainvars, servedvars,
             feevars, ordervars>>

\* what the repeated requests, the workers, the geo step and the schedule
\* step each leave alone
beside_repeat ==
    <<workervars, geovars, schedvars, mainvars, servedvars, feevars,
      ordervars>>
beside_workers ==
    <<SLOT_TO_VALIDATOR, reqvars, repeatvars, geovars, schedvars, mainvars,
      servedvars, feevars, ordervars>>
beside_geo ==
    <<SLOT_TO_VALIDATOR, reqvars, repeatvars, workervars, schedvars, mainvars,
      servedvars, feevars, ordervars>>
beside_schedule ==
    <<reqvars, repeatvars, workervars, geovars, mainvars, servedvars, feevars,
      ordervars>>
beside_main ==
    <<reqvars, repeatvars, workervars, servedvars, feevars, ordervars>>
beside_served ==
    <<repeatvars, workervars, geovars, schedvars, mainvars, feevars, ordervars>>
beside_fees ==
    <<SLOT_TO_VALIDATOR, reqvars, repeatvars, workervars, geovars, schedvars,
      mainvars, servedvars, ordervars>>
beside_order ==
    <<repeatvars, workervars, geovars, schedvars, mainvars, servedvars,
      feevars>>

vars == <<SLOT_TO_VALIDATOR, reqvars, auxvars>>

---------------------------------------------------------------------------
(* Bounds of the model *)

\* length of an identity in bytes (32 in the program)
IdLen == 2
\* largest wall-clock value the requests sample
MaxNowMs == 11
\* largest slot the priority-fee source knows
MaxSlot == 3
\* largest block_count and longest Specific list of a priority-fee request
MaxBlocks == 2
\* largest number of transactions of a block
MaxTxs == 1
\* largest number of block listings one selection asks for
MaxListings == 2
\* PriorityFees::BLOCK_COUNT_SLOT_MARGIN_DIV, scaled to the block counts
BLOCK_COUNT_SLOT_MARGIN_DIV == 2
\* largest number of entries of data/schedule.json
MaxEntries == 2
\* largest number of entries of data/leader_geo.json
MaxGeoEntries == 2
\* worker threads sharing the snapshot
NUM_WORKERS == 2
\* largest slot offset a packaged schedule entry may carry
MaxOffset == 3
\* packaged epoch metadata (data/schedule.json "metadata")
StartTimeMs == 2
SlotDurationMs == 2
StartSlot == 3
EndSlot == 5

\* the `limit` argument of get_slot_leaders
SLOT_LEADERS_LIMIT == 1

---------------------------------------------------------------------------
(* Option and Result *)

None == <<>>
Some(x) == <<x>>

RpcError(code, message) == [ok |-> FALSE, code |-> code, message |-> message]
Ok(output) == [ok |-> TRUE, output |-> output]

\* answers of the authoritative source
ClientErr == [ok |-> FALSE]
ClientOk(v) == [ok |-> TRUE, value |-> v]

---------------------------------------------------------------------------
(* Identities and their textual encodings *)

Ident(a, b) == [i \in 1..IdLen |-> IF i < IdLen THEN a ELSE b]

\* an all-zero identity, one with leading zero bytes, one without
Identities == {Ident(0, 0), Ident(0, 255), Ident(170, 255)}

HexDigits == <<"0", "1", "2", "3", "4", "5", "6", "7",
               "8", "9", "a", "b", "c", "d", "e", "f">>

\* hex::encode: two lowercase hex digits per byte
hex_encode(bytes) ==
    [i \in 1..(2 * Len(bytes)) |->
        IF i % 2 = 1 THEN HexDigits[(bytes[(i + 1) \div 2] \div 16) + 1]
                     ELSE HexDigits[(bytes[i \div 2] % 16) + 1]]

Base58Alphabet ==
    <<"1", "2", "3", "4", "5", "6", "7", "8", "9",
      "A", "B", "C", "D", "E", "F", "G", "H", "J", "K", "L", "M", "N",
      "P", "Q", "R", "S", "T", "U", "V", "W", "X", "Y", "Z",
      "a", "b", "c", "d", "e", "f", "g", "h", "i", "j", "k", "m", "n",
      "o", "p", "q", "r", "s", "t", "u", "v", "w", "x", "y", "z">>

RECURSIVE BigEndian(_)
BigEndian(bytes) ==
    IF bytes = <<>> THEN 0
    ELSE 256 * BigEndian(SubSeq(bytes, 1, Len(bytes) - 1)) + bytes[Len(bytes)]

RECURSIVE LeadingZeros(_)
LeadingZeros(bytes) ==
    IF bytes = <<>> \/ bytes[1] # 0 THEN 0
    ELSE 1 + LeadingZeros(Tail(bytes))

RECURSIVE Base58Digits(_)
Base58Digits(n) ==
    IF n = 0 THEN <<>>
    ELSE Append(Base58Digits(n \div 58), Base58Alphabet[(n % 58) + 1])

\* Pubkey::to_string: base58, one "1" per leading zero byte
pubkey_to_string(bytes) ==
    [i \in 1..LeadingZeros(bytes) |-> "1"] \o Base58Digits(BigEndian(bytes))

\* the placeholder "unknown".to_string()
Unknown == <<"u", "n", "k", "n", "o", "w", "n">>

\* the placeholder [0u8; 32]
ZeroIdentity == [i \in 1..IdLen |-> 0]

\* an identity one byte short
ShortIdentity == Tail(Ident(170, 255))

\* an identity one byte too long
LongIdentity == Append(Ident(170, 255), 1)

\* a key with characters outside the base58 alphabet
NotBase58 == <<"0", "O">>

RECURSIVE Base58Value(_)
Base58Value(text) ==
    IF text = <<>> THEN 0
    ELSE 58 * Base58Value(SubSeq(text, 1, Len(text) - 1))
           + ((CHOOSE i \in 1..58 : Base58Alphabet[i] = text[Len(text)]) - 1)

RECURSIVE LeadingOnes(_)
LeadingOnes(text) ==
    IF text = <<>> \/ text[1] # "1" THEN 0
    ELSE 1 + LeadingOnes(Tail(text))

RECURSIVE BytesOf(_)
BytesOf(n) ==
    IF n = 0 THEN <<>>
    ELSE Append(BytesOf(n \div 256), n % 256)

\* Result<Vec<u8>, bs58::decode::Error>
DecodeErr == [ok |-> FALSE]
DecodeOk(bytes) == [ok |-> TRUE, bytes |-> bytes]

\* bs58::decode(..).into_vec(): an error on a character outside the
\* alphabet, else one zero byte per leading "1" and the number's bytes
bs58_decode(text) ==
    IF \E i \in 1..Len(text) : \A j \in 1..58 : Base58Alphabet[j] # text[i]
    THEN DecodeErr
    ELSE LET ones == LeadingOnes(text)
         IN  DecodeOk([i \in 1..ones |-> 0]
                        \o BytesOf(Base58Value(SubSeq(text, ones + 1,
                                                      Len(text)))))

---------------------------------------------------------------------------
(* region.rs *)

Regions == {"Frankfurt", "Dubai", "NewYork", "Tokyo"}

geo_label(region) ==
    CASE region = "Frankfurt" -> "Europe/Frankfurt"
      [] region = "Dubai"     -> "Middle East/Dubai"
      [] region = "NewYork"   -> "North America/New York"
      [] region = "Tokyo"     -> "Asia/Tokyo"

\* impl Display for Region
region_to_string(region) ==
    CASE region = "Frankfurt" -> "Frankfurt"
      [] region = "Dubai"     -> "Dubai"
      [] region = "NewYork"   -> "NewYork"
      [] region = "Tokyo"     -> "Tokyo"

\* Region::DEFAULT
Region_DEFAULT == "Frankfurt"

\* Region::from(u8) with the codes of Dubai and NewYork exchanged
region_from_u8_swapped(value) ==
    CASE value = 0 -> "Frankfurt"
      [] value = 1 -> "NewYork"
      [] value = 2 -> "Dubai"
      [] value = 3 -> "Tokyo"
      [] OTHER     -> Region_DEFAULT

\* impl From<u8> for Region
region_from_u8(value) ==
    CASE value = 0 -> "Frankfurt"
      [] value = 1 -> "Dubai"
      [] value = 2 -> "NewYork"
      [] value = 3 -> "Tokyo"
      [] OTHER     -> Region_DEFAULT

(* geo.rs *)

\* pub const IS_STUB: bool = true;
IS_STUB == TRUE

\* a resolver whose fallback is the last region of the catalog
get_region_fallback_tokyo(pubkey) ==
    IF pubkey = ZeroIdentity THEN "Frankfurt" ELSE "Tokyo"

\* STUB: all validators map to Frankfurt
get_region(pubkey) == "Frankfurt"

get_geo_label(pubkey) == geo_label(get_region(pubkey))

---------------------------------------------------------------------------
(* epoch.rs (the module is declared in lib.rs; its source is described by  *)
(* the specification, sections 3 and 4.2)                                  *)

epoch_metadata ==
    [start_time_ms    |-> StartTimeMs,
     slot_duration_ms |-> SlotDurationMs,
     start_slot       |-> StartSlot,
     end_slot         |-> EndSlot]

\* the metadata create_stub_files packages when no snapshot is present
stub_metadata ==
    [start_time_ms    |-> 0,
     slot_duration_ms |-> 400,
     start_slot       |-> 0,
     end_slot         |-> 432000]

\* saturating difference of two u64
SaturatingSub(a, b) == IF a >= b THEN a - b ELSE 0

\* start_slot + (now_ms - start_time_ms) / slot_duration_ms; the callers
\* take a plain u64, so a pre-epoch clock saturates to start_slot
CurrentSlotAt(meta, t) ==
    meta.start_slot
        + (SaturatingSub(t, meta.start_time_ms) \div meta.slot_duration_ms)

current_slot(t) == CurrentSlotAt(epoch_metadata, t)

slot_offset(slot) == SaturatingSub(slot, epoch_metadata.start_slot)

\* the singleton while the load has written only its first two fields
half_loaded ==
    [start_time_ms    |-> StartTimeMs,
     slot_duration_ms |-> SlotDurationMs]

\* first access without the one-time initialisation lock: every caller that
\* finds the singleton not ready loads it itself
once_enter_unlocked(state) ==
    IF state = "ready"
    THEN [once |-> "ready", pc |-> "read"]
    ELSE [once |-> state, pc |-> "load"]

\* first access to the singleton: the caller that finds it uninitialised
\* becomes the loader, a caller arriving during the load waits for it, and a
\* caller arriving later reads
once_enter(state) ==
    IF state = "uninit"
    THEN [once |-> "running", pc |-> "load"]
    ELSE IF state = "running"
         THEN [once |-> "running", pc |-> "wait"]
         ELSE [once |-> "ready", pc |-> "read"]

\* the slots a caller may compute from what it observed: the slot of the
\* loaded metadata, or anything at all from a half-loaded or empty cell
ObservedSlots(cell, t) ==
    IF cell = Some(epoch_metadata)
    THEN {CurrentSlotAt(cell[1], t)}
    ELSE 0..(EndSlot + 1)

---------------------------------------------------------------------------
(* schedule.rs *)

\* a lookup keyed by the absolute slot instead of the offset
get_leader_by_slot(slot) ==
    IF slot \in DOMAIN SLOT_TO_VALIDATOR
    THEN Some(SLOT_TO_VALIDATOR[slot])
    ELSE None

\* a lookup keyed one past the offset (a 1-based index into the epoch)
get_leader_one_based(slot) ==
    LET offset == slot_offset(slot) + 1
    IN  IF offset \in DOMAIN SLOT_TO_VALIDATOR
        THEN Some(SLOT_TO_VALIDATOR[offset])
        ELSE None

\* get_leader keyed by the difference slot - start_slot wrapping around at a
\* width of four bits
get_leader_wrapping_offset(slot) ==
    LET offset == (slot - epoch_metadata.start_slot) % 16
    IN  IF offset \in DOMAIN SLOT_TO_VALIDATOR
        THEN Some(SLOT_TO_VALIDATOR[offset])
        ELSE None

get_leader(slot) ==
    LET offset == slot_offset(slot)
    IN  IF offset \in DOMAIN SLOT_TO_VALIDATOR
        THEN Some(SLOT_TO_VALIDATOR[offset])
        ELSE None

---------------------------------------------------------------------------
(* lib.rs: the handlers *)

Modes == {"precomputed", "rpc", "verify"}

\* the "mode" field of the input: absent, or one of the lowercase names
ModeFields ==
    {None,
     Some(<<"p", "r", "e", "c", "o", "m", "p", "u", "t", "e", "d">>),
     Some(<<"r", "p", "c">>),
     Some(<<"v", "e", "r", "i", "f", "y">>)}

\* #[serde(default)] pub mode: Mode, with #[serde(rename_all = "lowercase")]
\* and #[default] Precomputed
deserialize_mode(field) ==
    IF field = None THEN "precomputed"
    ELSE CASE field[1] = <<"r", "p", "c">> -> "rpc"
           [] field[1] = <<"v", "e", "r", "i", "f", "y">> -> "verify"
           [] field[1] = <<"p", "r", "e", "c", "o", "m", "p", "u", "t", "e",
                           "d">> -> "precomputed"

\* a dispatch with the arms of Rpc and Verify exchanged
run_dispatch_swapped(m) ==
    CASE m = "precomputed" -> "run_precomputed"
      [] m = "rpc"         -> "run_verify"
      [] m = "verify"      -> "run_rpc"

\* `match params.mode` of LeaderRouting::run
run_dispatch(m) ==
    CASE m = "precomputed" -> "run_precomputed"
      [] m = "rpc"         -> "run_rpc"
      [] m = "verify"      -> "run_verify"

Output(slot, leader, region, debug) ==
    [slot           |-> slot,
     leader         |-> leader,
     leader_geo     |-> geo_label(region),
     closest_region |-> region_to_string(region),
     debug          |-> debug]

\* what a segment of an async handler does before it suspends or returns:
\* where it continues, the RPC call it issues, the value it returns
Step(next, call, ret) == [pc |-> next, call |-> call, result |-> ret]

GetSlotCall == <<"get_slot">>
GetSlotLeadersCall(slot, limit) == <<"get_slot_leaders", slot, limit>>

\* run_precomputed with the epoch-expiry guard left out
run_precomputed_no_guard(t) ==
    LET slot == current_slot(t)
        leader_pubkey == get_leader(slot)
    IN  IF leader_pubkey = None
        THEN RpcError(404, "No leader found for slot")
        ELSE Ok(Output(slot,
                       hex_encode(leader_pubkey[1]),
                       get_region(leader_pubkey[1]),
                       None))

\* run_precomputed with the guard written `slot >= meta.end_slot`
run_precomputed_guard_ge(t) ==
    LET slot == current_slot(t)
        meta == epoch_metadata
    IN  IF slot >= meta.end_slot
        THEN RpcError(410, "Epoch ended. Redeploy required.")
        ELSE run_precomputed_no_guard(t)

\* run_precomputed reporting the offset into the epoch as the slot
run_precomputed_reports_offset(t) ==
    LET slot == current_slot(t)
        meta == epoch_metadata
    IN  IF slot > meta.end_slot
        THEN RpcError(410, "Epoch ended. Redeploy required.")
        ELSE LET leader_pubkey == get_leader(slot)
             IN  IF leader_pubkey = None
                 THEN RpcError(404, "No leader found for slot")
                 ELSE Ok(Output(slot_offset(slot),
                                hex_encode(leader_pubkey[1]),
                                get_region(leader_pubkey[1]),
                                None))

\* run_precomputed has no await: the whole handler is one segment
run_precomputed(t) ==
    LET slot == current_slot(t)
        meta == epoch_metadata
    IN  IF slot > meta.end_slot
        THEN RpcError(410, "Epoch ended. Redeploy required.")
        ELSE LET leader_pubkey == get_leader(slot)
             IN  IF leader_pubkey = None
                 THEN RpcError(404, "No leader found for slot")
                 ELSE Ok(Output(slot,
                                hex_encode(leader_pubkey[1]),
                                get_region(leader_pubkey[1]),
                                None))

\* run_precomputed asking the RPC source for the slot on its way
run_precomputed_segment_with_call(t) ==
    Step("done", Some(GetSlotCall), Some(run_precomputed(t)))

\* `Mode::Precomputed => run_precomputed().await`: the handler runs to its
\* return without issuing a call
run_precomputed_segment(t) == Step("done", None, Some(run_precomputed(t)))

\* run_rpc up to `client.get_slot().await`
run_rpc_start == Step("rpc_get_slot", Some(GetSlotCall), None)

\* run_rpc from the answer of get_slot to `get_slot_leaders(slot, 1).await`
run_rpc_on_get_slot(resp) ==
    IF ~resp.ok
    THEN Step("done", None, Some(RpcError(500, "RPC get_slot failed")))
    ELSE Step("rpc_get_slot_leaders",
              Some(GetSlotLeadersCall(resp.value, SLOT_LEADERS_LIMIT)),
              None)

\* run_rpc's last segment with the two error codes exchanged
run_rpc_on_get_slot_leaders_codes_swapped(slot, resp) ==
    IF ~resp.ok
    THEN RpcError(404, "RPC get_slot_leaders failed")
    ELSE IF resp.value = <<>>
    THEN RpcError(500, "No leader returned for slot")
    ELSE LET leader_pubkey == Head(resp.value)
         IN  Ok(Output(slot,
                       pubkey_to_string(leader_pubkey),
                       get_region(leader_pubkey),
                       None))

\* run_rpc from the answer of get_slot_leaders to its return
run_rpc_on_get_slot_leaders(slot, resp) ==
    IF ~resp.ok
    THEN RpcError(500, "RPC get_slot_leaders failed")
    ELSE IF resp.value = <<>>
    THEN RpcError(404, "No leader returned for slot")
    ELSE LET leader_pubkey == Head(resp.value)
         IN  Ok(Output(slot,
                       pubkey_to_string(leader_pubkey),
                       get_region(leader_pubkey),
                       None))

\* run_verify up to `client.get_slot().await`
run_verify_start == Step("verify_get_slot", Some(GetSlotCall), None)

\* run_verify's second segment issuing get_slot again when it failed
run_verify_on_get_slot_retry(resp) ==
    IF ~resp.ok
    THEN Step("verify_get_slot", Some(GetSlotCall), None)
    ELSE Step("verify_get_slot_leaders",
              Some(GetSlotLeadersCall(resp.value, SLOT_LEADERS_LIMIT)),
              None)

\* run_verify from the answer of get_slot to `get_slot_leaders(..).await`
run_verify_on_get_slot(resp) ==
    IF ~resp.ok
    THEN Step("done", None, Some(RpcError(500, "RPC get_slot failed")))
    ELSE Step("verify_get_slot_leaders",
              Some(GetSlotLeadersCall(resp.value, SLOT_LEADERS_LIMIT)),
              None)

\* run_verify, steps 5 and after: compare, then build the Output from the
\* RPC values
verify_output(p_slot, p_leader, r_slot, rpc_leaders) ==
    LET precomputed_leader_hex ==
            IF p_leader = None THEN None ELSE Some(hex_encode(p_leader[1]))
        rpc_leader ==
            IF rpc_leaders = <<>> THEN None ELSE Some(Head(rpc_leaders))
        rpc_leader_hex ==
            IF rpc_leader = None THEN None
            ELSE Some(pubkey_to_string(rpc_leader[1]))
        slots_match == (p_slot = r_slot)
        leaders_match == (precomputed_leader_hex = rpc_leader_hex)
        leader_hex ==
            IF rpc_leader_hex = None THEN Unknown ELSE rpc_leader_hex[1]
        leader_bytes ==
            IF rpc_leader = None THEN ZeroIdentity ELSE rpc_leader[1]
    IN  Ok(Output(r_slot,
                  leader_hex,
                  get_region(leader_bytes),
                  Some([precomputed_slot   |-> p_slot,
                        rpc_slot           |-> r_slot,
                        slots_match        |-> slots_match,
                        precomputed_leader |-> precomputed_leader_hex,
                        rpc_leader         |-> rpc_leader_hex,
                        leaders_match      |-> leaders_match])))

\* run_verify's last segment answering from the precomputed leader when
\* get_slot_leaders failed
run_verify_on_get_slot_leaders_fallback(p_slot, p_leader, r_slot, resp) ==
    IF ~resp.ok
    THEN IF p_leader = None
         THEN RpcError(500, "RPC get_slot_leaders failed")
         ELSE Ok(Output(p_slot,
                        hex_encode(p_leader[1]),
                        get_region(p_leader[1]),
                        None))
    ELSE verify_output(p_slot, p_leader, r_slot, resp.value)

\* run_verify's last segment returning `debug: None` like the other two
run_verify_on_get_slot_leaders_no_debug(p_slot, p_leader, r_slot, resp) ==
    IF ~resp.ok
    THEN RpcError(500, "RPC get_slot_leaders failed")
    ELSE [verify_output(p_slot, p_leader, r_slot, resp.value)
            EXCEPT !.output.debug = None]

\* run_verify from the answer of get_slot_leaders to its return
run_verify_on_get_slot_leaders(p_slot, p_leader, r_slot, resp) ==
    IF ~resp.ok
    THEN RpcError(500, "RPC get_slot_leaders failed")
    ELSE verify_output(p_slot, p_leader, r_slot, resp.value)

---------------------------------------------------------------------------
(* The environment *)

Clock == 0..MaxNowMs

\* partial maps from slot offsets to identities
Tables ==
    UNION {[D -> Identities] : D \in SUBSET (0..MaxOffset)}

\* slots the authoritative source may report
RpcSlots == {StartSlot, EndSlot, EndSlot + 1}

LeaderLists ==
    UNION {[1..n -> Identities] : n \in 0..SLOT_LEADERS_LIMIT}

GetSlotResponses == {ClientErr} \cup {ClientOk(s) : s \in RpcSlots}

GetSlotLeadersResponses == {ClientErr} \cup {ClientOk(l) : l \in LeaderLists}

---------------------------------------------------------------------------
(* The state machine *)

\* no request in progress
RequestIdle ==
    /\ pc = "idle"
    /\ mode = "precomputed"
    /\ now_ms = 0
    /\ precomputed_slot = None
    /\ precomputed_leader = None
    /\ rpc_slot = None
    /\ calls = <<>>
    /\ get_slot_resp = None
    /\ get_slot_leaders_resp = None
    /\ result = None
    /\ params = None
    /\ handler = "none"

\* no request was served before
ServedIdle == served = None

\* no priority-fee request in progress
FeesIdle ==
    /\ pf_pc = "idle"
    /\ pf_input = None
    /\ latest_slot = None
    /\ block_slots = <<>>
    /\ select_calls = <<>>
    /\ pf_selected = None
    /\ pf_queue = <<>>
    /\ total_fees = 0
    /\ nonvote_count = 0
    /\ total_count = 0
    /\ latest_block = 0
    /\ vote_seen = 0
    /\ counted_fees = <<>>
    /\ pf_result = None

\* the caller remembers no earlier request
RepeatIdle == prev = None

\* no Verify request with a chosen place of its lookup is in progress
OrderIdle == lookup_order = "none"

\* phf::phf_map! {}
EmptyTable == [k \in {} |-> 0]

\* no geo data packaged (the stub table), no region call made
GeoIdle ==
    /\ geo_file = None
    /\ geo_pc = "run"
    /\ geo_rest = {}
    /\ geo_entries = <<>>
    /\ geo_valid = 0
    /\ geo_skipped = 0
    /\ VALIDATOR_TO_REGION = EmptyTable
    /\ probe = None

\* the schedule step is over, its table compiled into the program
ScheduleIdle ==
    /\ schedule_entries = <<>>
    /\ sched_pc = "built"
    /\ sched_i = 1
    /\ phf_builder = <<>>
    /\ valid_entries = 0
    /\ skipped_entries = 0

\* the build script has run with both data files present
MainIdle ==
    /\ schedule_exists = TRUE
    /\ require_data = FALSE
    /\ main_pc = "generate"
    /\ EPOCH_RKYV = Some(epoch_metadata)

Workers == 1..NUM_WORKERS

\* the singleton untouched and every worker before its first iteration
WorkersIdle ==
    /\ once = "uninit"
    /\ EPOCH_CELL = None
    /\ load_count = 0
    /\ th_pc = [w \in Workers |-> "start"]
    /\ th_meta = [w \in Workers |-> None]
    /\ th_slot = [w \in Workers |-> None]
    /\ th_leader = [w \in Workers |-> None]

Init ==
    /\ SLOT_TO_VALIDATOR \in Tables
    /\ RequestIdle
    /\ ServedIdle
    /\ FeesIdle
    /\ OrderIdle
    /\ RepeatIdle
    /\ WorkersIdle
    /\ GeoIdle
    /\ ScheduleIdle
    /\ MainIdle

\* Apply a segment's step: issue its call, move on, return its value
Take(step) ==
    /\ pc' = step.pc
    /\ calls' = calls \o step.call
    /\ result' = step.result

\* LeaderRouting::run, Mode::Precomputed
RunPrecomputed ==
    /\ pc = "idle"
    /\ \E t \in Clock :
          /\ now_ms' = t
          /\ Take(run_precomputed_segment(t))
    /\ \E field \in ModeFields :
          /\ run_dispatch(deserialize_mode(field)) = "run_precomputed"
          /\ params' = field
          /\ mode' = deserialize_mode(field)
    /\ handler' = "run_precomputed"
    /\ UNCHANGED <<SLOT_TO_VALIDATOR, precomputed_slot, precomputed_leader,
                   rpc_slot, get_slot_resp, get_slot_leaders_resp>>
    /\ UNCHANGED auxvars

\* LeaderRouting::run, Mode::Rpc
RunRpc ==
    /\ pc = "idle"
    /\ \E field \in ModeFields :
          /\ run_dispatch(deserialize_mode(field)) = "run_rpc"
          /\ params' = field
          /\ mode' = deserialize_mode(field)
    /\ handler' = "run_rpc"
    /\ Take(run_rpc_start)
    /\ UNCHANGED <<SLOT_TO_VALIDATOR, now_ms, precomputed_slot,
                   precomputed_leader, rpc_slot, get_slot_resp,
                   get_slot_leaders_resp>>
    /\ UNCHANGED auxvars

RunRpcOnGetSlot ==
    /\ pc = "rpc_get_slot"
    /\ \E resp \in GetSlotResponses :
          /\ get_slot_resp' = Some(resp)
          /\ rpc_slot' = IF resp.ok THEN Some(resp.value) ELSE None
          /\ Take(run_rpc_on_get_slot(resp))
    /\ UNCHANGED <<SLOT_TO_VALIDATOR, mode, now_ms, precomputed_slot,
                   precomputed_leader, get_slot_leaders_resp>>
    /\ UNCHANGED auxvars
    /\ UNCHANGED <<params, handler>>

RunRpcOnGetSlotLeaders ==
    /\ pc = "rpc_get_slot_leaders"
    /\ \E resp \in GetSlotLeadersResponses :
          /\ get_slot_leaders_resp' = Some(resp)
          /\ result' = Some(run_rpc_on_get_slot_leaders(rpc_slot[1], resp))
    /\ pc' = "done"
    /\ UNCHANGED <<SLOT_TO_VALIDATOR, mode, now_ms, precomputed_slot,
                   precomputed_leader, rpc_slot, calls, get_slot_resp>>
    /\ UNCHANGED auxvars
    /\ UNCHANGED <<params, handler>>

\* LeaderRouting::run, Mode::Verify
RunVerify ==
    /\ pc = "idle"
    /\ \E field \in ModeFields :
          /\ run_dispatch(deserialize_mode(field)) = "run_verify"
          /\ params' = field
          /\ mode' = deserialize_mode(field)
    /\ handler' = "run_verify"
    /\ \E t \in Clock :
          /\ now_ms' = t
          /\ precomputed_slot' = Some(current_slot(t))
    /\ Take(run_verify_start)
    /\ UNCHANGED <<SLOT_TO_VALIDATOR, precomputed_leader, rpc_slot,
                   get_slot_resp, get_slot_leaders_resp>>
    /\ UNCHANGED auxvars

RunVerifyOnGetSlot ==
    /\ pc = "verify_get_slot"
    /\ \E resp \in GetSlotResponses :
          /\ get_slot_resp' = Some(resp)
          /\ rpc_slot' = IF resp.ok THEN Some(resp.value) ELSE None
          /\ precomputed_leader' =
                IF resp.ok THEN get_leader(precomputed_slot[1]) ELSE None
          /\ Take(run_verify_on_get_slot(resp))
    /\ UNCHANGED <<SLOT_TO_VALIDATOR, mode, now_ms, precomputed_slot,
                   get_slot_leaders_resp>>
    /\ UNCHANGED auxvars
    /\ UNCHANGED <<params, handler>>

RunVerifyOnGetSlotLeaders ==
    /\ pc = "verify_get_slot_leaders"
    /\ \E resp \in GetSlotLeadersResponses :
          /\ get_slot_leaders_resp' = Some(resp)
          /\ result' = Some(run_verify_on_get_slot_leaders(
                                precomputed_slot[1], precomputed_leader,
                                rpc_slot[1], resp))
    /\ pc' = "done"
    /\ UNCHANGED <<SLOT_TO_VALIDATOR, mode, now_ms, precomputed_slot,
                   precomputed_leader, rpc_slot, calls, get_slot_resp>>
    /\ UNCHANGED auxvars
    /\ UNCHANGED <<params, handler>>

\* the result goes back to the caller; nothing of the request is kept
Reply ==
    /\ pc = "done"
    /\ pc' = "idle"
    /\ mode' = "precomputed"
    /\ now_ms' = 0
    /\ precomputed_slot' = None
    /\ precomputed_leader' = None
    /\ rpc_slot' = None
    /\ calls' = <<>>
    /\ get_slot_resp' = None
    /\ get_slot_leaders_resp' = None
    /\ result' = None
    /\ params' = None
    /\ handler' = "none"
    /\ UNCHANGED <<SLOT_TO_VALIDATOR, auxvars>>

Next ==
    \/ RunPrecomputed
    \/ RunRpc
    \/ RunRpcOnGetSlot
    \/ RunRpcOnGetSlotLeaders
    \/ RunVerify
    \/ RunVerifyOnGetSlot
    \/ RunVerifyOnGetSlotLeaders
    \/ Reply

Spec == Init /\ [][Next]_vars

---------------------------------------------------------------------------
(* Requests of every mode one after another, each one knowing the mode and *)
(* the outcome of the one served before it                                 *)

\* the tables the requests look up in: any set of offsets, one identity
ModeTables ==
    {tbl \in Tables : \A o \in DOMAIN tbl : tbl[o] = Ident(170, 255)}

InitModes ==
    /\ SLOT_TO_VALIDATOR \in ModeTables
    /\ RequestIdle
    /\ ServedIdle
    /\ FeesIdle
    /\ OrderIdle
    /\ RepeatIdle
    /\ WorkersIdle
    /\ GeoIdle
    /\ ScheduleIdle
    /\ MainIdle

\* LeaderRouting::run returns; nothing of the request is kept but what the
\* observer notes of it
ReplyServed ==
    /\ pc = "done"
    /\ served' = Some([mode |-> mode, ok |-> result[1].ok])
    /\ pc' = "idle"
    /\ mode' = "precomputed"
    /\ now_ms' = 0
    /\ precomputed_slot' = None
    /\ precomputed_leader' = None
    /\ rpc_slot' = None
    /\ calls' = <<>>
    /\ get_slot_resp' = None
    /\ get_slot_leaders_resp' = None
    /\ result' = None
    /\ params' = None
    /\ handler' = "none"
    /\ UNCHANGED SLOT_TO_VALIDATOR
    /\ UNCHANGED beside_served

NextModes ==
    \/ RunPrecomputed
    \/ RunRpc
    \/ RunRpcOnGetSlot
    \/ RunRpcOnGetSlotLeaders
    \/ RunVerify
    \/ RunVerifyOnGetSlot
    \/ RunVerifyOnGetSlotLeaders
    \/ ReplyServed

SpecModes == InitModes /\ [][NextModes]_vars

---------------------------------------------------------------------------
(* Repeated Precomputed requests of one caller, who keeps the clock value  *)
(* and the result of the previous request to compare the next one with     *)

ReplyRemember ==
    /\ pc = "done"
    /\ mode = "precomputed"
    /\ prev' = Some([now_ms |-> now_ms, result |-> result[1]])
    /\ pc' = "idle"
    /\ now_ms' = 0
    /\ calls' = <<>>
    /\ result' = None
    /\ UNCHANGED <<SLOT_TO_VALIDATOR, mode, precomputed_slot,
                   precomputed_leader, rpc_slot, get_slot_resp,
                   get_slot_leaders_resp>>
    /\ UNCHANGED beside_repeat
    /\ UNCHANGED <<params, handler>>

NextRepeat ==
    \/ RunPrecomputed
    \/ ReplyRemember

SpecRepeat == Init /\ [][NextRepeat]_vars

---------------------------------------------------------------------------
(* run_verify with its precomputed lookup (step 3) at each place it can    *)
(* take among the two awaits of the authoritative lookup                   *)

\* before get_slot, between the two awaits (where the code has it), after
\* get_slot_leaders
LookupOrders == {"precomputed_first", "interleaved", "authoritative_first"}

\* step 3 done only where the code has it and left out elsewhere
lookup_leader_between_only(order, place, slot, held) ==
    IF place = "interleaved" /\ order = "interleaved"
    THEN get_leader(slot)
    ELSE held

\* step 3, `schedule::get_leader(precomputed_slot)`, done at `place` when
\* the order puts it there
lookup_leader(order, place, slot, held) ==
    IF order = place THEN get_leader(slot) ELSE held

RunVerifyOrdered ==
    /\ pc = "idle"
    /\ \E field \in ModeFields :
          /\ run_dispatch(deserialize_mode(field)) = "run_verify"
          /\ params' = field
          /\ mode' = deserialize_mode(field)
    /\ handler' = "run_verify"
    /\ \E t \in Clock, order \in LookupOrders :
          /\ now_ms' = t
          /\ lookup_order' = order
          /\ precomputed_slot' = Some(current_slot(t))
          /\ precomputed_leader' =
                lookup_leader(order, "precomputed_first", current_slot(t),
                              None)
    /\ Take(run_verify_start)
    /\ UNCHANGED <<SLOT_TO_VALIDATOR, rpc_slot, get_slot_resp,
                   get_slot_leaders_resp>>
    /\ UNCHANGED beside_order

RunVerifyOrderedOnGetSlot ==
    /\ pc = "verify_get_slot"
    /\ \E resp \in GetSlotResponses :
          /\ get_slot_resp' = Some(resp)
          /\ rpc_slot' = IF resp.ok THEN Some(resp.value) ELSE None
          /\ precomputed_leader' =
                IF resp.ok
                THEN lookup_leader(lookup_order, "interleaved",
                                   precomputed_slot[1], precomputed_leader)
                ELSE precomputed_leader
          /\ Take(run_verify_on_get_slot(resp))
    /\ UNCHANGED <<SLOT_TO_VALIDATOR, mode, now_ms, precomputed_slot,
                   get_slot_leaders_resp, params, handler, lookup_order>>
    /\ UNCHANGED beside_order

RunVerifyOrderedOnGetSlotLeaders ==
    /\ pc = "verify_get_slot_leaders"
    /\ \E resp \in GetSlotLeadersResponses :
          LET leader ==
                  IF resp.ok
                  THEN lookup_leader(lookup_order, "authoritative_first",
                                     precomputed_slot[1], precomputed_leader)
                  ELSE precomputed_leader
          IN  /\ get_slot_leaders_resp' = Some(resp)
              /\ precomputed_leader' = leader
              /\ result' = Some(run_verify_on_get_slot_leaders(
                                    precomputed_slot[1], leader,
                                    rpc_slot[1], resp))
    /\ pc' = "done"
    /\ UNCHANGED <<SLOT_TO_VALIDATOR, mode, now_ms, precomputed_slot,
                   rpc_slot, calls, get_slot_resp, params, handler,
                   lookup_order>>
    /\ UNCHANGED beside_order

ReplyOrdered ==
    /\ pc = "done"
    /\ pc' = "idle"
    /\ mode' = "precomputed"
    /\ now_ms' = 0
    /\ precomputed_slot' = None
    /\ precomputed_leader' = None
    /\ rpc_slot' = None
    /\ calls' = <<>>
    /\ get_slot_resp' = None
    /\ get_slot_leaders_resp' = None
    /\ result' = None
    /\ params' = None
    /\ handler' = "none"
    /\ lookup_order' = "none"
    /\ UNCHANGED SLOT_TO_VALIDATOR
    /\ UNCHANGED beside_order

NextOrder ==
    \/ RunVerifyOrdered
    \/ RunVerifyOrderedOnGetSlot
    \/ RunVerifyOrderedOnGetSlotLeaders
    \/ ReplyOrdered

SpecOrder == Init /\ [][NextOrder]_vars

---------------------------------------------------------------------------
(* Worker threads looping over `epoch::current_slot()` and                 *)
(* `schedule::get_leader(slot)`, sharing the lazily loaded metadata        *)

\* the tables the workers look up in: any set of offsets, one identity
WorkerTables ==
    {tbl \in Tables : \A o \in DOMAIN tbl : tbl[o] = Ident(0, 255)}

InitWorkers ==
    /\ SLOT_TO_VALIDATOR \in WorkerTables
    /\ RequestIdle
    /\ ServedIdle
    /\ FeesIdle
    /\ OrderIdle
    /\ RepeatIdle
    /\ WorkersIdle
    /\ GeoIdle
    /\ ScheduleIdle
    /\ MainIdle

\* `epoch::current_slot()` reaching the singleton
WorkerEnter(w) ==
    /\ th_pc[w] = "start"
    /\ once' = once_enter(once).once
    /\ th_pc' = [th_pc EXCEPT ![w] = once_enter(once).pc]
    /\ UNCHANGED <<EPOCH_CELL, load_count, th_meta, th_slot, th_leader>>
    /\ UNCHANGED beside_workers

\* the loader reads the packaged snapshot and writes its first fields
WorkerLoadBegin(w) ==
    /\ th_pc[w] = "load"
    /\ load_count' = load_count + 1
    /\ EPOCH_CELL' = Some(half_loaded)
    /\ th_pc' = [th_pc EXCEPT ![w] = "store"]
    /\ UNCHANGED <<once, th_meta, th_slot, th_leader>>
    /\ UNCHANGED beside_workers

\* the loader completes the value and publishes the singleton
WorkerLoadEnd(w) ==
    /\ th_pc[w] = "store"
    /\ EPOCH_CELL' = Some(epoch_metadata)
    /\ once' = "ready"
    /\ th_pc' = [th_pc EXCEPT ![w] = "read"]
    /\ UNCHANGED <<load_count, th_meta, th_slot, th_leader>>
    /\ UNCHANGED beside_workers

\* a caller that arrived during the load resumes once it is published
WorkerWake(w) ==
    /\ th_pc[w] = "wait"
    /\ once = "ready"
    /\ th_pc' = [th_pc EXCEPT ![w] = "read"]
    /\ UNCHANGED <<once, EPOCH_CELL, load_count, th_meta, th_slot, th_leader>>
    /\ UNCHANGED beside_workers

\* `let slot = epoch::current_slot();` on the shared reference
WorkerCurrentSlot(w) ==
    /\ th_pc[w] = "read"
    /\ th_meta' = [th_meta EXCEPT ![w] = EPOCH_CELL]
    /\ \E t \in Clock : \E slot \in ObservedSlots(EPOCH_CELL, t) :
          th_slot' = [th_slot EXCEPT ![w] = Some(slot)]
    /\ th_pc' = [th_pc EXCEPT ![w] = "lookup"]
    /\ UNCHANGED <<once, EPOCH_CELL, load_count, th_leader>>
    /\ UNCHANGED beside_workers

\* `let _ = schedule::get_leader(slot);` and back to the loop head
WorkerGetLeader(w) ==
    /\ th_pc[w] = "lookup"
    /\ th_leader' = [th_leader EXCEPT ![w] = get_leader(th_slot[w][1])]
    /\ th_pc' = [th_pc EXCEPT ![w] = "start"]
    /\ UNCHANGED <<once, EPOCH_CELL, load_count, th_meta, th_slot>>
    /\ UNCHANGED beside_workers

NextWorkers ==
    \E w \in Workers :
        \/ WorkerEnter(w)
        \/ WorkerLoadBegin(w)
        \/ WorkerLoadEnd(w)
        \/ WorkerWake(w)
        \/ WorkerCurrentSlot(w)
        \/ WorkerGetLeader(w)

SpecWorkers == InitWorkers /\ [][NextWorkers]_vars

---------------------------------------------------------------------------
(* build.rs: the geo step of the build script, then the region calls of    *)
(* the built program                                                       *)

\* region names of data/leader_geo.json: the four regions and another name
RegionNames == Regions \cup {"Sydney"}

\* Map region name to u8 code for compact storage
region_to_u8_dubai_newyork_exchanged(region) ==
    CASE region = "Frankfurt" -> 0
      [] region = "Dubai"     -> 2
      [] region = "NewYork"   -> 1
      [] region = "Tokyo"     -> 3
      [] OTHER                -> 4

region_to_u8(region) ==
    CASE region = "Frankfurt" -> 0
      [] region = "Dubai"     -> 1
      [] region = "NewYork"   -> 2
      [] region = "Tokyo"     -> 3
      [] OTHER                -> 4

\* keys of data/leader_geo.json: identities in base58, a key that decodes
\* to the wrong length, a key that does not decode
GeoKeys ==
    {pubkey_to_string(id) : id \in Identities}
        \cup {pubkey_to_string(ShortIdentity), NotBase58}

GeoMaps ==
    UNION {[K -> RegionNames] :
             K \in {S \in SUBSET GeoKeys : Cardinality(S) <= MaxGeoEntries}}

\* the loop body of generate_validator_to_region_phf with no length check
geo_entry_any_length(pubkey_b58, region) ==
    LET decoded == bs58_decode(pubkey_b58)
    IN  IF decoded.ok
        THEN Some([key |-> decoded.bytes, value |-> region_to_u8(region)])
        ELSE None

\* the loop body of generate_validator_to_region_phf: the entry pushed for
\* a key that decodes to a full identity, nothing for any other key
geo_entry(pubkey_b58, region) ==
    LET decoded == bs58_decode(pubkey_b58)
    IN  IF decoded.ok /\ Len(decoded.bytes) = IdLen
        THEN Some([key |-> decoded.bytes, value |-> region_to_u8(region)])
        ELSE None

\* the map `phf::phf_map! { key => value, ... }` of the pushed entries
phf_map(entries) ==
    [k \in {entries[i].key : i \in 1..Len(entries)} |->
        (CHOOSE e \in {entries[i] : i \in 1..Len(entries)} : e.key = k).value]

InitGeo ==
    /\ SLOT_TO_VALIDATOR = EmptyTable
    /\ RequestIdle
    /\ ServedIdle
    /\ FeesIdle
    /\ OrderIdle
    /\ RepeatIdle
    /\ WorkersIdle
    /\ ScheduleIdle
    /\ MainIdle
    /\ geo_file \in {None} \cup {Some(m) : m \in GeoMaps}
    /\ geo_pc = "main"
    /\ geo_rest = {}
    /\ geo_entries = <<>>
    /\ geo_valid = 0
    /\ geo_skipped = 0
    /\ VALIDATOR_TO_REGION = EmptyTable
    /\ probe = None

\* main: a data file is missing, create_stub_files writes the empty map
BuildGeoStub ==
    /\ geo_pc = "main"
    /\ geo_file = None
    /\ VALIDATOR_TO_REGION' = EmptyTable
    /\ geo_pc' = "run"
    /\ UNCHANGED <<geo_file, geo_rest, geo_entries, geo_valid, geo_skipped,
                   probe>>
    /\ UNCHANGED beside_geo

\* main: leader_geo.json parsed, generate_validator_to_region_phf entered
BuildGeoStart ==
    /\ geo_pc = "main"
    /\ geo_file # None
    /\ geo_rest' = DOMAIN geo_file[1]
    /\ geo_entries' = <<>>
    /\ geo_valid' = 0
    /\ geo_skipped' = 0
    /\ geo_pc' = "loop"
    /\ UNCHANGED <<geo_file, VALIDATOR_TO_REGION, probe>>
    /\ UNCHANGED beside_geo

\* one iteration of `for (pubkey_b58, region) in geo_map`
BuildGeoEntry ==
    /\ geo_pc = "loop"
    /\ \E pubkey_b58 \in geo_rest :
          LET entry == geo_entry(pubkey_b58, geo_file[1][pubkey_b58])
          IN  /\ geo_rest' = geo_rest \ {pubkey_b58}
              /\ IF entry = None
                 THEN /\ geo_skipped' = geo_skipped + 1
                      /\ UNCHANGED <<geo_entries, geo_valid>>
                 ELSE /\ geo_entries' = Append(geo_entries, entry[1])
                      /\ geo_valid' = geo_valid + 1
                      /\ UNCHANGED geo_skipped
    /\ UNCHANGED <<geo_file, geo_pc, VALIDATOR_TO_REGION, probe>>
    /\ UNCHANGED beside_geo

\* the loop is over: phf_geo.rs is written and compiled into the program
BuildGeoWrite ==
    /\ geo_pc = "loop"
    /\ geo_rest = {}
    /\ VALIDATOR_TO_REGION' = phf_map(geo_entries)
    /\ geo_pc' = "run"
    /\ UNCHANGED <<geo_file, geo_rest, geo_entries, geo_valid, geo_skipped,
                   probe>>
    /\ UNCHANGED beside_geo

\* geo::get_region(&pubkey) and geo::get_geo_label(&pubkey)
CallGetRegion ==
    /\ geo_pc = "run"
    /\ \E pubkey \in Identities :
          probe' = Some([op     |-> "get_region",
                         pubkey |-> pubkey,
                         region |-> get_region(pubkey),
                         label  |-> get_geo_label(pubkey)])
    /\ geo_pc' = "called"
    /\ UNCHANGED <<geo_file, geo_rest, geo_entries, geo_valid,
                   geo_skipped, VALIDATOR_TO_REGION>>
    /\ UNCHANGED beside_geo

\* Region::from(value)
CallRegionFrom ==
    /\ geo_pc = "run"
    /\ \E value \in 0..255 :
          probe' = Some([op     |-> "from",
                         value  |-> value,
                         region |-> region_from_u8(value)])
    /\ geo_pc' = "called"
    /\ UNCHANGED <<geo_file, geo_rest, geo_entries, geo_valid,
                   geo_skipped, VALIDATOR_TO_REGION>>
    /\ UNCHANGED beside_geo

\* the caller has its answer and is free to call again
ReturnRegion ==
    /\ geo_pc = "called"
    /\ probe' = None
    /\ geo_pc' = "run"
    /\ UNCHANGED <<geo_file, geo_rest, geo_entries, geo_valid,
                   geo_skipped, VALIDATOR_TO_REGION>>
    /\ UNCHANGED beside_geo

NextGeo ==
    \/ BuildGeoStub
    \/ BuildGeoStart
    \/ BuildGeoEntry
    \/ BuildGeoWrite
    \/ CallGetRegion
    \/ CallRegionFrom
    \/ ReturnRegion

SpecGeo == InitGeo /\ [][NextGeo]_vars

---------------------------------------------------------------------------
(* build.rs: the schedule step of the build script                         *)

\* entries of data/schedule.json: an offset and the bytes of an identity,
\* which may be short or long
ScheduleEntries ==
    [slot_offset  : 0..MaxOffset,
     pubkey_bytes : Identities \cup {ShortIdentity, LongIdentity}]

ScheduleFiles ==
    UNION {[1..n -> ScheduleEntries] : n \in 0..MaxEntries}

\* the loop body of generate_slot_to_validator_phf with no length check
schedule_entry_any_length(offset, pubkey_bytes) ==
    Some([key |-> offset, value |-> pubkey_bytes])

\* the loop body of generate_slot_to_validator_phf: the entry given to the
\* builder for a full identity, nothing for any other length
schedule_entry(offset, pubkey_bytes) ==
    IF Len(pubkey_bytes) # IdLen
    THEN None
    ELSE Some([key |-> offset, value |-> pubkey_bytes])

\* phf_codegen::Map::build: panics on a duplicate key (None), else the map
phf_build(entries) ==
    IF \E i, j \in 1..Len(entries) : i # j /\ entries[i].key = entries[j].key
    THEN None
    ELSE Some(phf_map(entries))

InitSchedule ==
    /\ SLOT_TO_VALIDATOR = EmptyTable
    /\ RequestIdle
    /\ ServedIdle
    /\ FeesIdle
    /\ OrderIdle
    /\ RepeatIdle
    /\ WorkersIdle
    /\ GeoIdle
    /\ MainIdle
    /\ schedule_entries \in ScheduleFiles
    /\ sched_pc = "loop"
    /\ sched_i = 1
    /\ phf_builder = <<>>
    /\ valid_entries = 0
    /\ skipped_entries = 0

\* one iteration of `for (slot_offset, pubkey_bytes) in &schedule.entries`
BuildScheduleEntry ==
    /\ sched_pc = "loop"
    /\ sched_i <= Len(schedule_entries)
    /\ LET entry == schedule_entry(schedule_entries[sched_i].slot_offset,
                                   schedule_entries[sched_i].pubkey_bytes)
       IN  IF entry = None
           THEN /\ skipped_entries' = skipped_entries + 1
                /\ UNCHANGED <<phf_builder, valid_entries>>
           ELSE /\ phf_builder' = Append(phf_builder, entry[1])
                /\ valid_entries' = valid_entries + 1
                /\ UNCHANGED skipped_entries
    /\ sched_i' = sched_i + 1
    /\ UNCHANGED <<SLOT_TO_VALIDATOR, schedule_entries, sched_pc>>
    /\ UNCHANGED beside_schedule

\* the loop is over: `phf_builder.build()` is written to phf_schedule.rs,
\* or panics
BuildScheduleWrite ==
    /\ sched_pc = "loop"
    /\ sched_i > Len(schedule_entries)
    /\ IF phf_build(phf_builder) = None
       THEN /\ sched_pc' = "panicked"
            /\ UNCHANGED SLOT_TO_VALIDATOR
       ELSE /\ sched_pc' = "built"
            /\ SLOT_TO_VALIDATOR' = phf_build(phf_builder)[1]
    /\ UNCHANGED <<schedule_entries, sched_i, phf_builder, valid_entries,
                   skipped_entries>>
    /\ UNCHANGED beside_schedule

NextSchedule ==
    \/ BuildScheduleEntry
    \/ BuildScheduleWrite

SpecSchedule == InitSchedule /\ [][NextSchedule]_vars

---------------------------------------------------------------------------
(* build.rs: main, from the test for the data files to the generated files *)

\* schedule files and geo maps of at most one entry
SmallScheduleFiles == {f \in ScheduleFiles : Len(f) <= 1}
SmallGeoMaps == {m \in GeoMaps : Cardinality(DOMAIN m) <= 1}

\* stub files whose metadata describes an epoch without slots
create_stub_files_empty_epoch ==
    [phf_schedule |-> EmptyTable,
     phf_geo      |-> EmptyTable,
     epoch_rkyv   |-> [stub_metadata EXCEPT !.end_slot = 0]]

\* create_stub_files: the three files written when a data file is missing
create_stub_files ==
    [phf_schedule |-> EmptyTable,
     phf_geo      |-> EmptyTable,
     epoch_rkyv   |-> stub_metadata]

InitMain ==
    /\ SLOT_TO_VALIDATOR = EmptyTable
    /\ RequestIdle
    /\ ServedIdle
    /\ FeesIdle
    /\ OrderIdle
    /\ RepeatIdle
    /\ WorkersIdle
    /\ schedule_exists \in BOOLEAN
    /\ require_data \in BOOLEAN
    /\ main_pc = "main"
    /\ EPOCH_RKYV = None
    /\ schedule_entries \in (IF schedule_exists THEN SmallScheduleFiles
                                                ELSE {<<>>})
    /\ sched_pc = "wait"
    /\ sched_i = 1
    /\ phf_builder = <<>>
    /\ valid_entries = 0
    /\ skipped_entries = 0
    /\ geo_file \in {None} \cup {Some(m) : m \in SmallGeoMaps}
    /\ geo_pc = "wait"
    /\ geo_rest = {}
    /\ geo_entries = <<>>
    /\ geo_valid = 0
    /\ geo_skipped = 0
    /\ VALIDATOR_TO_REGION = EmptyTable
    /\ probe = None

\* `if !schedule_exists || !geo_exists`
DataMissing == ~schedule_exists \/ geo_file = None

\* main: a data file is missing in CI mode, `panic!("Data files required
\* in CI mode")`
MainRequireData ==
    /\ main_pc = "main"
    /\ DataMissing
    /\ require_data
    /\ main_pc' = "panicked"
    /\ UNCHANGED <<schedule_exists, require_data, EPOCH_RKYV>>
    /\ UNCHANGED <<SLOT_TO_VALIDATOR, geovars, schedvars>>
    /\ UNCHANGED beside_main

\* main: a data file is missing, `create_stub_files(); return;`
MainStub ==
    /\ main_pc = "main"
    /\ DataMissing
    /\ ~require_data
    /\ SLOT_TO_VALIDATOR' = create_stub_files.phf_schedule
    /\ VALIDATOR_TO_REGION' = create_stub_files.phf_geo
    /\ EPOCH_RKYV' = Some(create_stub_files.epoch_rkyv)
    /\ main_pc' = "stub"
    /\ sched_pc' = "built"
    /\ geo_pc' = "run"
    /\ UNCHANGED <<schedule_exists, require_data>>
    /\ UNCHANGED <<schedule_entries, sched_i, phf_builder, valid_entries,
                   skipped_entries>>
    /\ UNCHANGED <<geo_file, geo_rest, geo_entries, geo_valid, geo_skipped,
                   probe>>
    /\ UNCHANGED beside_main

\* main: both files are present, generate_slot_to_validator_phf is entered
MainGenerate ==
    /\ main_pc = "main"
    /\ ~DataMissing
    /\ main_pc' = "generate"
    /\ sched_pc' = "loop"
    /\ UNCHANGED <<schedule_exists, require_data, EPOCH_RKYV>>
    /\ UNCHANGED <<schedule_entries, sched_i, phf_builder, valid_entries,
                   skipped_entries>>
    /\ UNCHANGED <<SLOT_TO_VALIDATOR, geovars>>
    /\ UNCHANGED beside_main

\* main: generate_epoch_metadata, then leader_geo.json is read
MainEpochMetadata ==
    /\ main_pc = "generate"
    /\ sched_pc = "built"
    /\ geo_pc = "wait"
    /\ EPOCH_RKYV' = Some(epoch_metadata)
    /\ geo_pc' = "main"
    /\ UNCHANGED <<schedule_exists, require_data, main_pc>>
    /\ UNCHANGED <<geo_file, geo_rest, geo_entries, geo_valid, geo_skipped,
                   VALIDATOR_TO_REGION, probe>>
    /\ UNCHANGED <<SLOT_TO_VALIDATOR, schedvars>>
    /\ UNCHANGED beside_main

NextMain ==
    \/ MainRequireData
    \/ MainStub
    \/ MainGenerate
    \/ BuildScheduleEntry
    \/ BuildScheduleWrite
    \/ MainEpochMetadata
    \/ BuildGeoStart
    \/ BuildGeoEntry
    \/ BuildGeoWrite

SpecMain == InitMain /\ [][NextMain]_vars

---------------------------------------------------------------------------
(* priority_fees/src/lib.rs *)

\* PriorityFees::BASE_FEE
BASE_FEE == 5000

\* PriorityFees::VOTE_ACCOUNT
VOTE_ACCOUNT == "Vote111111111111111111111111111111111111111"

\* Result<Output, String> of run, and the outcome of a panic
PfOk(output) == [ok |-> TRUE, panic |-> FALSE, output |-> output]
PfErr == [ok |-> FALSE, panic |-> FALSE]
PfPanic == [ok |-> FALSE, panic |-> TRUE]

GetBlocksCall(start_slot) == <<"get_blocks_with_commitment", start_slot>>

\* `latest_slot.saturating_sub((block_count + block_count /
\* BLOCK_COUNT_SLOT_MARGIN_DIV + 1) as u64)`
start_slot_of(latest, block_count) ==
    LET back == block_count
                  + (block_count \div BLOCK_COUNT_SLOT_MARGIN_DIV) + 1
    IN  IF latest < back THEN 0 ELSE latest - back

\* an iterator over the first block_count slots of the listing
skip_to_last_takes_first(slots, block_count) ==
    SubSeq(slots, 1, block_count)

\* `block_slots.into_iter().skip(block_slots.len() - block_count)`
skip_to_last(slots, block_count) ==
    SubSeq(slots, Len(slots) - block_count + 1, Len(slots))

\* the head of `while block_slots.len() < block_count`: list again from the
\* start slot, or leave the loop with the last block_count slots
select_loop(latest, slots, block_count) ==
    IF Len(slots) < block_count
    THEN [pc       |-> "get_blocks",
          call     |-> Some(GetBlocksCall(start_slot_of(latest, block_count))),
          selected |-> None]
    ELSE [pc       |-> "selected",
          call     |-> None,
          selected |-> Some(skip_to_last(slots, block_count))]

\* `is_voting`: the vote account is among the account keys
is_voting(transaction) ==
    \E i \in 1..Len(transaction.account_keys) :
        transaction.account_keys[i] = VOTE_ACCOUNT

\* the body of `for (i, transaction) in transactions`, on the counters
scan_transaction(acc, transaction) ==
    IF transaction.encoding # "Json" THEN acc
    ELSE IF is_voting(transaction) THEN acc
    ELSE IF transaction.meta = None THEN acc
    ELSE IF transaction.meta[1] < BASE_FEE THEN acc
    ELSE [acc EXCEPT !.total_fees = @ + (transaction.meta[1] - BASE_FEE),
                     !.nonvote_count = @ + 1]

RECURSIVE scan_transactions(_, _)
scan_transactions(acc, transactions) ==
    IF transactions = <<>> THEN acc
    ELSE scan_transactions(scan_transaction(acc, Head(transactions)),
                           Tail(transactions))

\* the body of `for slot in select_blocks(..)` after the block arrived
scan_block(acc, slot, block) ==
    IF block.transactions = None THEN acc
    ELSE scan_transactions(
             [acc EXCEPT !.total_count = @ + Len(block.transactions[1]),
                         !.latest_block = slot],
             block.transactions[1])

\* `Ok(Output { .. })`; the division panics on a zero divisor
run_output(acc) ==
    IF acc.nonvote_count = 0
    THEN PfPanic
    ELSE PfOk([total_transactions |-> acc.total_count,
               vote_transactions  |-> acc.total_count - acc.nonvote_count,
               latest_block       |-> acc.latest_block,
               average_priority_fee_lamports
                                  |-> acc.total_fees \div acc.nonvote_count])

\* slots the source knows
FeeSlots == 0..MaxSlot

RECURSIVE SeqsUpTo(_, _)
SeqsUpTo(S, n) ==
    IF n = 0 THEN {<<>>}
    ELSE SeqsUpTo(S, n - 1)
           \cup {Append(q, x) : q \in SeqsUpTo(S, n - 1), x \in S}

\* Input::Latest { block_count } and Input::Specific { blocks }
FeeInputs ==
    {[kind |-> "Latest", block_count |-> n] : n \in 0..MaxBlocks}
      \cup {[kind |-> "Specific", blocks |-> b] :
               b \in SeqsUpTo(FeeSlots, MaxBlocks)}

\* answers of get_slot
FeeSlotResponses == {ClientErr} \cup {ClientOk(v) : v \in FeeSlots}

\* answers of get_blocks_with_commitment(start_slot, None, ..): the slots
\* of the blocks from start_slot on, ascending
Listings(start_slot) ==
    {q \in SeqsUpTo(start_slot..MaxSlot, MaxBlocks + 1) :
        \A i \in 1..(Len(q) - 1) : q[i] < q[i + 1]}

ListingResponses(start_slot) ==
    {ClientErr} \cup {ClientOk(q) : q \in Listings(start_slot)}

\* transactions of a block: a voting one, one in an encoding other than
\* Json, one without fee metadata, one below the base fee, one at the base
\* fee, one above it
Transactions ==
    {[encoding |-> "Json", account_keys |-> <<"Payer", VOTE_ACCOUNT>>,
      meta |-> Some(BASE_FEE)],
     [encoding |-> "Binary", account_keys |-> <<>>,
      meta |-> Some(BASE_FEE + 3)],
     [encoding |-> "Json", account_keys |-> <<"Payer">>, meta |-> None],
     [encoding |-> "Json", account_keys |-> <<"Payer">>,
      meta |-> Some(BASE_FEE - 1)],
     [encoding |-> "Json", account_keys |-> <<"Payer">>,
      meta |-> Some(BASE_FEE)],
     [encoding |-> "Json", account_keys |-> <<"Payer">>,
      meta |-> Some(BASE_FEE + 3)]}

\* answers of get_block_with_config
BlockResponses ==
    {ClientErr, ClientOk([transactions |-> None])}
      \cup {ClientOk([transactions |-> Some(t)]) :
               t \in SeqsUpTo(Transactions, MaxTxs)}

\* the voting transactions among the transactions of a block
VotesIn(block) ==
    IF block.transactions = None THEN 0
    ELSE Cardinality({i \in 1..Len(block.transactions[1]) :
            /\ block.transactions[1][i].encoding = "Json"
            /\ VOTE_ACCOUNT \in {block.transactions[1][i].account_keys[k] :
                   k \in 1..Len(block.transactions[1][i].account_keys)}})

\* a fee put at its place in a sorted list of fees
RECURSIVE Sorted(_, _)
Sorted(fees, fee) ==
    IF fees = <<>> \/ fee <= Head(fees) THEN <<fee>> \o fees
    ELSE <<Head(fees)>> \o Sorted(Tail(fees), fee)

\* the sorted list of fees with the fees of the block's non-voting Json
\* transactions that paid the base fee or more
RECURSIVE CountedIn(_, _)
CountedIn(fees, transactions) ==
    IF transactions = <<>> THEN fees
    ELSE LET t == Head(transactions)
             counted == /\ t.encoding = "Json"
                        /\ \A k \in 1..Len(t.account_keys) :
                              t.account_keys[k] # VOTE_ACCOUNT
                        /\ t.meta # None
                        /\ t.meta[1] >= BASE_FEE
         IN  CountedIn(IF counted THEN Sorted(fees, t.meta[1]) ELSE fees,
                       Tail(transactions))

InitFees ==
    /\ SLOT_TO_VALIDATOR = EmptyTable
    /\ RequestIdle
    /\ ServedIdle
    /\ FeesIdle
    /\ OrderIdle
    /\ RepeatIdle
    /\ WorkersIdle
    /\ GeoIdle
    /\ ScheduleIdle
    /\ MainIdle

\* run up to the first await: select_blocks returns at once for a Specific
\* input and awaits get_slot for a Latest one
FeesRun ==
    /\ pf_pc = "idle"
    /\ \E p \in FeeInputs :
          /\ pf_input' = Some(p)
          /\ IF p.kind = "Specific"
             THEN /\ pf_selected' = Some(p.blocks)
                  /\ select_calls' = <<>>
                  /\ pf_pc' = "selected"
             ELSE /\ pf_selected' = None
                  /\ select_calls' = <<GetSlotCall>>
                  /\ pf_pc' = "get_slot"
    /\ UNCHANGED <<latest_slot, block_slots, pf_queue, pf_result, scanvars>>
    /\ UNCHANGED beside_fees

\* the error of an RPC call is returned by `?`
FeesFail ==
    /\ pf_result' = Some(PfErr)
    /\ pf_pc' = "done"

\* select_blocks from the answer of get_slot to the first listing
FeesOnGetSlot ==
    /\ pf_pc = "get_slot"
    /\ \E resp \in FeeSlotResponses :
          IF ~resp.ok
          THEN /\ FeesFail
               /\ UNCHANGED <<latest_slot, select_calls, pf_selected>>
          ELSE LET loop == select_loop(resp.value, <<>>,
                                       pf_input[1].block_count)
               IN  /\ latest_slot' = Some(resp.value)
                   /\ select_calls' = select_calls \o loop.call
                   /\ pf_selected' = loop.selected
                   /\ pf_pc' = loop.pc
                   /\ UNCHANGED pf_result
    /\ UNCHANGED <<pf_input, block_slots, pf_queue, scanvars>>
    /\ UNCHANGED beside_fees

\* select_blocks from the answer of a listing to the next listing or to
\* its return
FeesOnGetBlocks ==
    /\ pf_pc = "get_blocks"
    /\ \E resp \in ListingResponses(
                      start_slot_of(latest_slot[1], pf_input[1].block_count)) :
          IF ~resp.ok
          THEN /\ FeesFail
               /\ UNCHANGED <<block_slots, select_calls, pf_selected>>
          ELSE LET loop == select_loop(latest_slot[1], resp.value,
                                       pf_input[1].block_count)
               IN  /\ loop.pc = "get_blocks"
                         => Len(select_calls) <= MaxListings
                   /\ block_slots' = resp.value
                   /\ select_calls' = select_calls \o loop.call
                   /\ pf_selected' = loop.selected
                   /\ pf_pc' = loop.pc
                   /\ UNCHANGED pf_result
    /\ UNCHANGED <<pf_input, latest_slot, pf_queue, scanvars>>
    /\ UNCHANGED beside_fees

\* the counters of run as a record
Counters ==
    [total_fees    |-> total_fees,
     nonvote_count |-> nonvote_count,
     total_count   |-> total_count,
     latest_block  |-> latest_block]

\* select_blocks has returned its iterator: the loop of run asks for the
\* first block, or there is none and run returns
FeesSelected ==
    /\ pf_pc = "selected"
    /\ pf_queue' = pf_selected[1]
    /\ latest_slot' = None
    /\ block_slots' = <<>>
    /\ select_calls' = <<>>
    /\ pf_selected' = None
    /\ IF pf_selected[1] = <<>>
       THEN /\ pf_result' = Some(run_output(Counters))
            /\ pf_pc' = "done"
       ELSE /\ pf_pc' = "get_block"
            /\ UNCHANGED pf_result
    /\ UNCHANGED <<pf_input, scanvars>>
    /\ UNCHANGED beside_fees

\* run from the answer of get_block_with_config to the next one or to its
\* return
FeesOnGetBlock ==
    /\ pf_pc = "get_block"
    /\ \E resp \in BlockResponses :
          IF ~resp.ok
          THEN /\ FeesFail
               /\ UNCHANGED <<pf_queue, scanvars>>
          ELSE LET acc == scan_block(Counters, Head(pf_queue), resp.value)
               IN  /\ total_fees' = acc.total_fees
                   /\ nonvote_count' = acc.nonvote_count
                   /\ total_count' = acc.total_count
                   /\ latest_block' = acc.latest_block
                   /\ vote_seen' = vote_seen + VotesIn(resp.value)
                   /\ counted_fees' =
                         IF resp.value.transactions = None THEN counted_fees
                         ELSE CountedIn(counted_fees,
                                        resp.value.transactions[1])
                   /\ pf_queue' = Tail(pf_queue)
                   /\ IF Tail(pf_queue) = <<>>
                      THEN /\ pf_result' = Some(run_output(acc))
                           /\ pf_pc' = "done"
                      ELSE /\ pf_pc' = "get_block"
                           /\ UNCHANGED pf_result
    /\ UNCHANGED <<pf_input, selectvars>>
    /\ UNCHANGED beside_fees

\* the caller has the result; the procedure keeps nothing
FeesReply ==
    /\ pf_pc = "done"
    /\ pf_pc' = "idle"
    /\ pf_input' = None
    /\ latest_slot' = None
    /\ block_slots' = <<>>
    /\ select_calls' = <<>>
    /\ pf_selected' = None
    /\ pf_queue' = <<>>
    /\ total_fees' = 0
    /\ nonvote_count' = 0
    /\ total_count' = 0
    /\ latest_block' = 0
    /\ vote_seen' = 0
    /\ counted_fees' = <<>>
    /\ pf_result' = None
    /\ UNCHANGED beside_fees

NextFees ==
    \/ FeesRun
    \/ FeesOnGetSlot
    \/ FeesOnGetBlocks
    \/ FeesSelected
    \/ FeesOnGetBlock
    \/ FeesReply

SpecFees == InitFees /\ [][NextFees]_vars

---------------------------------------------------------------------------
(* Vocabulary of the properties *)

Returned == pc = "done" /\ result # None
Succeeded == Returned /\ result[1].ok
Failed == Returned /\ ~result[1].ok
FailedWith(code) == Failed /\ result[1].code = code

\* the slot the Epoch Clock resolved for the request's clock value
ResolvedSlot == current_slot(now_ms)

GetSlotFailed == get_slot_resp = Some(ClientErr)
GetSlotLeadersFailed == get_slot_leaders_resp = Some(ClientErr)

\* the leaders the authoritative source answered with (<<>> if it did not)
RpcLeaders ==
    IF get_slot_leaders_resp # None /\ get_slot_leaders_resp[1].ok
    THEN get_slot_leaders_resp[1].value
    ELSE <<>>

CallCount(fn) == Cardinality({i \in DOMAIN calls : calls[i][1] = fn})

HexValue(c) == CHOOSE k \in 0..15 : HexDigits[k + 1] = c

\* text is the hex rendering of bytes: decoding it gives the bytes back
IsHexOf(text, bytes) ==
    /\ Len(text) = 2 * Len(bytes)
    /\ \A i \in 1..Len(bytes) :
          16 * HexValue(text[2 * i - 1]) + HexValue(text[2 * i]) = bytes[i]

\* text renders the identity, in either of the program's two encodings
Renders(text, id) == text \in {hex_encode(id), pubkey_to_string(id)}

---------------------------------------------------------------------------
(* Properties *)

\* C1: in Precomputed mode, whenever the resolved slot is greater than
\* end_slot the request fails with code 410 and returns no Output, also
\* when the leader table has an entry at that slot's offset.
C1_StaleScheduleFails ==
    (pc = "done" /\ mode = "precomputed"
        /\ ResolvedSlot > epoch_metadata.end_slot)
    => FailedWith(410)

\* a stale slot whose offset the table does hold, answered with 410
C1_Witness ==
    /\ mode = "precomputed"
    /\ ResolvedSlot > epoch_metadata.end_slot
    /\ get_leader(ResolvedSlot) # None
    /\ FailedWith(410)

\* C2: in Precomputed mode, for a resolved slot <= end_slot (the boundary
\* included): without a table entry at the slot's offset the request fails
\* with 404; with one it succeeds, Output.slot is the resolved slot and
\* Output.leader is the hex rendering of exactly that entry.
C2_InRangeLookup ==
    (pc = "done" /\ mode = "precomputed"
        /\ ResolvedSlot <= epoch_metadata.end_slot)
    => IF slot_offset(ResolvedSlot) \notin DOMAIN SLOT_TO_VALIDATOR
       THEN FailedWith(404)
       ELSE /\ Succeeded
            /\ result[1].output.slot = ResolvedSlot
            /\ IsHexOf(result[1].output.leader,
                       SLOT_TO_VALIDATOR[slot_offset(ResolvedSlot)])

\* the boundary slot end_slot, resolved to its table entry
C2_Witness ==
    /\ mode = "precomputed"
    /\ ResolvedSlot = epoch_metadata.end_slot
    /\ Succeeded
    /\ result[1].output.slot = epoch_metadata.end_slot

\* C3: in rpc and verify mode, once get_slot or get_slot_leaders has failed
\* the request fails with code 500 and no Output, whatever the precomputed
\* lookup holds.
C3_UpstreamFailureFails ==
    (pc = "done" /\ mode \in {"rpc", "verify"}
        /\ (GetSlotFailed \/ GetSlotLeadersFailed))
    => FailedWith(500)

\* verify mode, get_slot_leaders failed although the precomputed side had
\* a leader for an in-range slot
C3_Witness ==
    /\ mode = "verify"
    /\ GetSlotLeadersFailed
    /\ precomputed_leader # None
    /\ precomputed_slot[1] <= epoch_metadata.end_slot
    /\ FailedWith(500)

\* C4: in Verify mode, when the precomputed leader and the authoritative
\* leader are the same raw bytes, leaders_match is true.
C4_LeadersMatchOnRawBytes ==
    (Succeeded /\ mode = "verify"
        /\ precomputed_leader # None /\ RpcLeaders # <<>>
        /\ precomputed_leader[1] = Head(RpcLeaders))
    => result[1].output.debug[1].leaders_match

\* C5: in Verify mode leaders_match is true only when both sides returned
\* a leader and the two are the same identity, and slots_match is true
\* exactly when the precomputed slot equals the authoritative slot.
C5_OracleComparesProvidedValues ==
    (Succeeded /\ mode = "verify")
    => LET debug == result[1].output.debug[1]
       IN  /\ debug.leaders_match
               => /\ precomputed_leader # None
                  /\ RpcLeaders # <<>>
                  /\ precomputed_leader[1] = Head(RpcLeaders)
           /\ debug.slots_match <=> (ResolvedSlot = get_slot_resp[1].value)

\* C6: in every successful Output the leader field renders an identity the
\* lookup produced: the table entry in Precomputed mode, the first element
\* of the authoritative answer in rpc and verify mode; an empty answer
\* never yields a successful Output.
C6_NoPlaceholderLeader ==
    Succeeded
    => LET leader == result[1].output.leader
       IN  IF mode = "precomputed"
           THEN /\ get_leader(ResolvedSlot) # None
                /\ Renders(leader, get_leader(ResolvedSlot)[1])
           ELSE /\ RpcLeaders # <<>>
                /\ Renders(leader, Head(RpcLeaders))

\* C7: a successful Verify Output carries the authoritative slot and the
\* authoritative leader with that leader's region, and its debug block
\* carries the two slots that were compared.
C7_VerifyPrimaryIsAuthoritative ==
    (Succeeded /\ mode = "verify")
    => LET output == result[1].output
       IN  /\ output.slot = get_slot_resp[1].value
           /\ RpcLeaders # <<>>
           /\ Renders(output.leader, Head(RpcLeaders))
           /\ output.leader_geo = geo_label(get_region(Head(RpcLeaders)))
           /\ output.closest_region
                 = region_to_string(get_region(Head(RpcLeaders)))
           /\ output.debug # None
           /\ output.debug[1].precomputed_slot = ResolvedSlot
           /\ output.debug[1].rpc_slot = get_slot_resp[1].value

\* C8: a successful Output carries a debug block exactly when the request
\* ran in Verify mode.
C8_DebugOnlyInVerify ==
    Succeeded => (result[1].output.debug # None <=> mode = "verify")

\* a verify request that succeeded, with its debug block
C8_Witness ==
    /\ Succeeded
    /\ mode = "verify"
    /\ result[1].output.debug # None

\* C9: every error has a code in {404, 410, 500}; 410 only for a
\* precomputed slot beyond end_slot, 500 only after a failed authoritative
\* call, 404 only when no leader was found for the slot.
C9_ErrorCodes ==
    Failed
    => LET code == result[1].code
       IN  /\ code \in {404, 410, 500}
           /\ code = 410
                => /\ mode = "precomputed"
                   /\ ResolvedSlot > epoch_metadata.end_slot
           /\ code = 500
                => /\ mode \in {"rpc", "verify"}
                   /\ (GetSlotFailed \/ GetSlotLeadersFailed)
           /\ code = 404
                => \/ /\ mode = "precomputed"
                      /\ get_leader(ResolvedSlot) = None
                   \/ /\ mode = "rpc"
                      /\ get_slot_leaders_resp = Some(ClientOk(<<>>))

\* rpc mode, the source answered with no leader: 404
C9_Witness ==
    /\ mode = "rpc"
    /\ get_slot_leaders_resp = Some(ClientOk(<<>>))
    /\ FailedWith(404)

\* C10: a request issues get_slot at most once and get_slot_leaders at
\* most once; after a failed get_slot the request has returned and
\* get_slot_leaders was never issued; get_slot_leaders is asked for the
\* slot get_slot returned.
C10_NoRetry ==
    /\ CallCount("get_slot") <= 1
    /\ CallCount("get_slot_leaders") <= 1
    /\ GetSlotFailed
         => /\ Failed
            /\ CallCount("get_slot_leaders") = 0
    /\ \A i \in DOMAIN calls :
          calls[i][1] = "get_slot_leaders"
            => /\ get_slot_resp # None
               /\ get_slot_resp[1].ok
               /\ calls[i][2] = get_slot_resp[1].value

\* a verify request that went through both calls
C10_Witness ==
    /\ pc = "done"
    /\ mode = "verify"
    /\ Succeeded
    /\ calls = <<GetSlotCall,
                 GetSlotLeadersCall(get_slot_resp[1].value,
                                    SLOT_LEADERS_LIMIT)>>

\* C11: a Precomputed request issues no call to the authoritative source
\* and receives no answer from it, whether it succeeds or fails, and a
\* request with the same clock value as the caller's previous one returns
\* the same result.
C11_PrecomputedIsLocal ==
    mode = "precomputed"
    => /\ calls = <<>>
       /\ get_slot_resp = None
       /\ get_slot_leaders_resp = None
       /\ (Returned /\ prev # None /\ prev[1].now_ms = now_ms)
            => result[1] = prev[1].result

\* two requests at the same clock value, the second one answered
C11_Witness ==
    /\ mode = "precomputed"
    /\ Returned
    /\ prev # None
    /\ prev[1].now_ms = now_ms
    /\ calls = <<>>

\* C12: however the workers' first accesses and lookups interleave, the
\* packaged metadata is loaded at most once and exactly once before anyone
\* observes it, every worker observes the complete value (hence all the
\* same one), and no step changes the leader table or the metadata once
\* it is published.
C12_LoadedOnceAndShared ==
    /\ [](/\ load_count <= 1
          /\ \A w \in Workers :
                th_meta[w] # None
                => /\ th_meta[w] = Some(epoch_metadata)
                   /\ load_count = 1)
    /\ [][/\ SLOT_TO_VALIDATOR' = SLOT_TO_VALIDATOR
          /\ once = "ready" => /\ EPOCH_CELL' = EPOCH_CELL
                               /\ once' = "ready"]_vars

\* one worker has observed the loaded metadata and looked a leader up with
\* it while another, past the singleton's gate, is about to read it
C12_Witness ==
    \E v, w \in Workers :
        /\ v # w
        /\ th_pc[v] = "read"
        /\ th_meta[v] = None
        /\ th_meta[w] = Some(epoch_metadata)
        /\ th_leader[w] # None
        /\ load_count = 1

\* C13: for every slot of the epoch, get_leader answers the identity the
\* table pairs with offset slot - start_slot, or not found when the table
\* has no such entry; the answer Verify kept from its call is the answer of
\* a repeated call; with a single entry at offset k the slot start_slot + k
\* finds it and start_slot + k + 1 finds nothing; with an empty table no
\* slot finds anything.
C13_LookupByOffset ==
    /\ \A slot \in StartSlot..EndSlot :
          get_leader(slot) =
              IF (slot - StartSlot) \in DOMAIN SLOT_TO_VALIDATOR
              THEN Some(SLOT_TO_VALIDATOR[slot - StartSlot])
              ELSE None
    /\ (mode = "verify" /\ get_slot_resp # None /\ get_slot_resp[1].ok)
          => precomputed_leader = get_leader(precomputed_slot[1])
    /\ \A k \in 0..MaxOffset :
          DOMAIN SLOT_TO_VALIDATOR = {k}
          => /\ get_leader(StartSlot + k) = Some(SLOT_TO_VALIDATOR[k])
             /\ get_leader(StartSlot + k + 1) = None
    /\ DOMAIN SLOT_TO_VALIDATOR = {}
          => \A slot \in 0..(StartSlot + MaxOffset + 1) :
                get_leader(slot) = None

\* Verify has looked up a slot of the epoch in a single-entry table and
\* found its leader
C13_Witness ==
    /\ mode = "verify"
    /\ get_slot_resp # None
    /\ get_slot_resp[1].ok
    /\ precomputed_slot[1] \in (StartSlot + 1)..EndSlot
    /\ DOMAIN SLOT_TO_VALIDATOR = {precomputed_slot[1] - StartSlot}
    /\ precomputed_leader
         = Some(SLOT_TO_VALIDATOR[precomputed_slot[1] - StartSlot])

\* C14: for every slot past end_slot the lookup finds nothing: when Verify
\* computes a slot greater than end_slot, the leader it looked up in the
\* built table is None.
C14_NoLeaderPastEnd ==
    (/\ mode = "verify"
     /\ get_slot_resp # None
     /\ get_slot_resp[1].ok
     /\ precomputed_slot[1] > EndSlot)
    => precomputed_leader = None

\* C15: slot_offset(start_slot) = 0 and slot_offset(start_slot + k) = k for
\* every k up to end_slot - start_slot, and the leader a handler looked up
\* for a slot is the table's entry under exactly slot_offset of that slot.
C15_OffsetIsKey ==
    /\ slot_offset(StartSlot) = 0
    /\ \A k \in 0..(EndSlot - StartSlot) : slot_offset(StartSlot + k) = k
    /\ (mode = "verify" /\ get_slot_resp # None /\ get_slot_resp[1].ok)
          => LET key == slot_offset(precomputed_slot[1])
             IN  /\ key \in DOMAIN SLOT_TO_VALIDATOR
                    => precomputed_leader = Some(SLOT_TO_VALIDATOR[key])
                 /\ key \notin DOMAIN SLOT_TO_VALIDATOR
                    => precomputed_leader = None

\* Verify looked up the last slot of the epoch in a table that has entries
\* at its offset and at the next one, and got the former
C15_Witness ==
    /\ mode = "verify"
    /\ get_slot_resp # None
    /\ get_slot_resp[1].ok
    /\ precomputed_slot[1] = EndSlot
    /\ {EndSlot - StartSlot, EndSlot - StartSlot + 1}
          \subseteq DOMAIN SLOT_TO_VALIDATOR
    /\ SLOT_TO_VALIDATOR[EndSlot - StartSlot]
          # SLOT_TO_VALIDATOR[EndSlot - StartSlot + 1]
    /\ precomputed_leader = Some(SLOT_TO_VALIDATOR[EndSlot - StartSlot])

\* C16: for a clock value at or after start_time_ms the resolved slot is
\* start_slot + (now_ms - start_time_ms) / slot_duration_ms, rounded down:
\* it is the slot a successful Precomputed request reports and the slot
\* Verify computes; with the stub metadata the clock value 40000 resolves
\* to slot 100; and a later clock value never resolves to an earlier slot.
C16_CurrentSlotFormula ==
    /\ \A t \in Clock :
          t >= StartTimeMs
          => current_slot(t)
               = StartSlot + ((t - StartTimeMs) \div SlotDurationMs)
    /\ (mode = "precomputed" /\ Succeeded /\ now_ms >= StartTimeMs)
          => result[1].output.slot
               = StartSlot + ((now_ms - StartTimeMs) \div SlotDurationMs)
    /\ (mode = "verify" /\ pc # "idle" /\ now_ms >= StartTimeMs)
          => precomputed_slot
               = Some(StartSlot + ((now_ms - StartTimeMs) \div SlotDurationMs))
    /\ CurrentSlotAt(stub_metadata, 40000) = 100
    /\ \A t1, t2 \in Clock :
          t1 <= t2 => current_slot(t1) <= current_slot(t2)

\* a Precomputed request in the middle of a slot, past the first one,
\* succeeded
C16_Witness ==
    /\ mode = "precomputed"
    /\ Succeeded
    /\ now_ms > StartTimeMs + SlotDurationMs
    /\ (now_ms - StartTimeMs) % SlotDurationMs # 0
    /\ result[1].output.slot > StartSlot

C18_StubIffEmpty ==
    geo_pc \in {"run", "called"}
    => (IS_STUB <=> VALIDATOR_TO_REGION = EmptyTable)

\* C19: Region::from answers for every code of a byte: Frankfurt for 0,
\* Dubai for 1, NewYork for 2, Tokyo for 3 and the default region,
\* Frankfurt, for 4 to 255.
C19_RegionFromIsTotal ==
    (probe # None /\ probe[1].op = "from")
    => /\ probe[1].region \in Regions
       /\ probe[1].value = 0 => probe[1].region = "Frankfurt"
       /\ probe[1].value = 1 => probe[1].region = "Dubai"
       /\ probe[1].value = 2 => probe[1].region = "NewYork"
       /\ probe[1].value = 3 => probe[1].region = "Tokyo"
       /\ probe[1].value \in 4..255
             => /\ probe[1].region = Region_DEFAULT
                /\ probe[1].region = "Frankfurt"

\* Region::from was called with the largest byte
C19_Witness ==
    /\ probe # None
    /\ probe[1].op = "from"
    /\ probe[1].value = 255
    /\ probe[1].region = "Frankfurt"

\* the entries of the schedule file that carry a full identity
KeptEntries ==
    {i \in 1..Len(schedule_entries) :
        Len(schedule_entries[i].pubkey_bytes) = IdLen}

\* no two kept entries carry the same offset
DistinctOffsets ==
    \A i, j \in KeptEntries :
        i # j => schedule_entries[i].slot_offset
                   # schedule_entries[j].slot_offset

\* the schedule step is over and its table holds exactly the kept entries,
\* each under its offset, the others counted as skipped
BuiltFromKept ==
    /\ sched_pc = "built"
    /\ DOMAIN SLOT_TO_VALIDATOR
         = {schedule_entries[i].slot_offset : i \in KeptEntries}
    /\ \A i \in KeptEntries :
          SLOT_TO_VALIDATOR[schedule_entries[i].slot_offset]
            = schedule_entries[i].pubkey_bytes
    /\ valid_entries = Cardinality(KeptEntries)
    /\ skipped_entries = Len(schedule_entries) - Cardinality(KeptEntries)

\* C20 as stated: for every schedule entry list the schedule step never
\* fails, and it ends with a table of exactly the entries that carry a full
\* identity, the others dropped and counted as skipped.
C20_BuildCompletesForEveryList ==
    /\ sched_pc # "panicked"
    /\ sched_pc = "built" => BuiltFromKept

\* C20 amended: for every schedule entry list whose entries with a full
\* identity carry pairwise distinct offsets, the schedule step never fails,
\* and it ends with a table of exactly those entries, each under its
\* offset, the others dropped and counted as skipped; an entry list with
\* none left ends with the empty table.
C20_BuildCompletesOnDistinctOffsets ==
    DistinctOffsets
    => /\ sched_pc # "panicked"
       /\ sched_pc = "built"
             => /\ BuiltFromKept
                /\ KeptEntries = {} => SLOT_TO_VALIDATOR = EmptyTable

\* a list of one malformed and one well-formed entry has been built into a
\* table of one entry
C20_Witness ==
    /\ sched_pc = "built"
    /\ Len(schedule_entries) = 2
    /\ Len(schedule_entries[1].pubkey_bytes) # IdLen
    /\ Len(schedule_entries[2].pubkey_bytes) = IdLen
    /\ skipped_entries = 1
    /\ DOMAIN SLOT_TO_VALIDATOR = {schedule_entries[2].slot_offset}

\* the build script is over and its files are written
BuildCompleted ==
    \/ main_pc = "stub"
    \/ main_pc = "generate" /\ sched_pc = "built" /\ geo_pc = "run"

\* the packaged dataset is the stub: both tables empty, the default
\* metadata, which describes a non-empty epoch of slots of positive length
StubDataset ==
    /\ SLOT_TO_VALIDATOR = EmptyTable
    /\ VALIDATOR_TO_REGION = EmptyTable
    /\ EPOCH_RKYV = Some([start_time_ms    |-> 0,
                          slot_duration_ms |-> 400,
                          start_slot       |-> 0,
                          end_slot         |-> 432000])
    /\ EPOCH_RKYV[1].end_slot > EPOCH_RKYV[1].start_slot
    /\ EPOCH_RKYV[1].slot_duration_ms > 0

\* C21 as stated: when a data file is missing the build never fails, and
\* once main has run it has packaged the stub dataset.
C21_MissingDataBuildsStub ==
    DataMissing
    => /\ main_pc # "panicked"
       /\ main_pc # "main" => (BuildCompleted /\ StubDataset)

\* C21 amended: when a data file is missing and LEADER_ROUTING_REQUIRE_DATA
\* is not set, the build never fails, and once main has run it has packaged
\* the stub dataset: an empty leader table, an empty geo table and the
\* default metadata; when the variable is set the build fails instead and
\* packages nothing.
C21_MissingDataBuildsStubUnlessRequired ==
    DataMissing
    => /\ ~require_data
           => /\ main_pc # "panicked"
              /\ main_pc # "main" => (BuildCompleted /\ StubDataset)
       /\ require_data
           => /\ ~BuildCompleted
              /\ EPOCH_RKYV = None

\* the schedule file is present with an entry, the geo file is missing, and
\* main has written the stub files
C21_Witness ==
    /\ schedule_exists
    /\ schedule_entries # <<>>
    /\ geo_file = None
    /\ ~require_data
    /\ main_pc = "stub"
    /\ StubDataset

\* C22: a request runs one handler, the one of its mode field: Precomputed
\* for "precomputed" and for no field, Authoritative for "rpc", Verify for
\* "verify"; the handler leaves the traces of that handler only; and this
\* holds whatever the mode and the outcome of the request served before.
C22_ModeSelectsHandler ==
    pc # "idle"
    => /\ params = None => handler = "run_precomputed"
       /\ params = Some(<<"p", "r", "e", "c", "o", "m", "p", "u", "t", "e",
                          "d">>)
             => handler = "run_precomputed"
       /\ params = Some(<<"r", "p", "c">>) => handler = "run_rpc"
       /\ params = Some(<<"v", "e", "r", "i", "f", "y">>)
             => handler = "run_verify"
       /\ handler \in {"run_precomputed", "run_rpc", "run_verify"}
       /\ handler = "run_precomputed"
             => calls = <<>> /\ precomputed_slot = None
       /\ handler = "run_rpc"
             => calls[1] = GetSlotCall /\ precomputed_slot = None
       /\ handler = "run_verify"
             => calls[1] = GetSlotCall /\ precomputed_slot # None

\* a request without a mode field, served after a Verify request that
\* failed, ran Precomputed and returned
C22_Witness ==
    /\ served = Some([mode |-> "verify", ok |-> FALSE])
    /\ params = None
    /\ handler = "run_precomputed"
    /\ Returned

\* C23: in every successful Output, in every mode, the leader field is the
\* hex encoding of the leader's identity: two hexadecimal characters per
\* byte, which decode to the identity the table or the authoritative
\* source gave.
C23_LeaderIsHexInEveryMode ==
    Succeeded
    => LET leader == result[1].output.leader
           id == IF mode = "precomputed" THEN get_leader(ResolvedSlot)
                 ELSE IF RpcLeaders # <<>> THEN Some(Head(RpcLeaders))
                 ELSE None
       IN  id # None
           => /\ Len(leader) = 2 * IdLen
              /\ \A i \in 1..Len(leader) :
                    \E k \in 1..16 : HexDigits[k] = leader[i]
              /\ IsHexOf(leader, id[1])

\* run has returned Ok(Output)
FeesSucceeded == pf_pc = "done" /\ pf_result # None /\ pf_result[1].ok

\* C24: in a successful Output, vote_transactions is the number of scanned
\* transactions that were skipped because they are voting transactions, and
\* total_transactions is the number of transactions of all processed
\* blocks; transactions skipped for another reason do not count as votes.
C24_VoteTransactionsCountsVotes ==
    FeesSucceeded
    => /\ pf_result[1].output.vote_transactions = vote_seen
       /\ pf_result[1].output.total_transactions = total_count

\* what an rpc request returns on the authoritative answers of this request
RpcWouldReturn ==
    IF ~get_slot_resp[1].ok
    THEN run_rpc_on_get_slot(get_slot_resp[1]).result[1]
    ELSE run_rpc_on_get_slot_leaders(get_slot_resp[1].value,
                                     get_slot_leaders_resp[1])

\* what a Precomputed request returns at the clock value of this request
PrecomputedWouldReturn == run_precomputed(now_ms)

\* C25: Verify is a composition of the other two handlers. On the same
\* clock value, snapshot and authoritative answers a Verify request
\* succeeds exactly when an rpc request would, then has the slot, leader,
\* leader_geo and closest_region of the rpc result, and its debug
\* precomputed_slot and precomputed_leader are the slot and leader of the
\* Precomputed result, precomputed_leader being absent exactly when the
\* Precomputed request would fail.
C25_VerifyComposesTheOtherHandlers ==
    (mode = "verify" /\ Returned)
    => /\ result[1].ok = RpcWouldReturn.ok
       /\ result[1].ok
            => LET out == result[1].output
                   rpc == RpcWouldReturn.output
                   pre == PrecomputedWouldReturn
               IN  /\ out.slot = rpc.slot
                   /\ out.leader = rpc.leader
                   /\ out.leader_geo = rpc.leader_geo
                   /\ out.closest_region = rpc.closest_region
                   /\ (out.debug[1].precomputed_leader = None) = ~pre.ok
                   /\ pre.ok
                        => /\ out.debug[1].precomputed_slot = pre.output.slot
                           /\ out.debug[1].precomputed_leader
                                = Some(pre.output.leader)

\* what run_verify returns, its steps in the order of the code, on the
\* clock value and the authoritative answers of this request
CodeOrderResult ==
    IF ~get_slot_resp[1].ok
    THEN run_verify_on_get_slot(get_slot_resp[1]).result[1]
    ELSE run_verify_on_get_slot_leaders(
             current_slot(now_ms), get_leader(current_slot(now_ms)),
             get_slot_resp[1].value, get_slot_leaders_resp[1])

KeptGeoKeys ==
    {k \in DOMAIN geo_file[1] :
        bs58_decode(k).ok /\ Len(bs58_decode(k).bytes) = IdLen}

\* C28: the region code the build writes and the region the runtime decodes
\* agree. Region::from(region_to_u8(display name of r)) = r for each of the
\* four regions, their display names are pairwise distinct, a name the
\* build does not recognise is written as code 4, which the runtime decodes
\* to the default region; so every entry of the built table decodes to the
\* region its file entry names, or to the default for an unknown name.
C28_RegionCodeRoundTrip ==
    /\ \A r \in Regions :
          region_from_u8(region_to_u8(region_to_string(r))) = r
    /\ \A r1, r2 \in Regions :
          r1 # r2 => region_to_string(r1) # region_to_string(r2)
    /\ \A name \in RegionNames \ {region_to_string(r) : r \in Regions} :
          /\ region_to_u8(name) = 4
          /\ region_from_u8(region_to_u8(name)) = Region_DEFAULT
    /\ (geo_pc \in {"run", "called"} /\ geo_file # None)
          => \A k \in KeptGeoKeys :
                LET name == geo_file[1][k]
                    code == VALIDATOR_TO_REGION[bs58_decode(k).bytes]
                IN  /\ \A r \in Regions :
                          name = region_to_string(r)
                            => region_from_u8(code) = r
                    /\ name \notin {region_to_string(r) : r \in Regions}
                          => /\ code = 4
                             /\ region_from_u8(code) = Region_DEFAULT

\* the build wrote a table from a file that names NewYork for one identity
\* and a region the build does not know for another
C28_Witness ==
    /\ geo_pc = "run"
    /\ geo_file # None
    /\ \E k1, k2 \in KeptGeoKeys :
          /\ geo_file[1][k1] = "NewYork"
          /\ geo_file[1][k2] = "Sydney"
          /\ VALIDATOR_TO_REGION[bs58_decode(k1).bytes] = 2
          /\ VALIDATOR_TO_REGION[bs58_decode(k2).bytes] = 4

\* the sum of the priority fees (fee - BASE_FEE) of a list of fees
RECURSIVE PrioritySum(_)
PrioritySum(fees) ==
    IF fees = <<>> THEN 0
    ELSE (Head(fees) - BASE_FEE) + PrioritySum(Tail(fees))

\* C29: PriorityFees::run completes with a result, Ok or Err, on every
\* input and every sequence of answers, also when it counted no non-voting
\* transaction; when it counted some, average_priority_fee_lamports is the
\* sum of fee - 5000 over the counted transactions divided by their
\* number, rounded down, and no counted fee is below 5000.
C29_RunAlwaysReturns ==
    pf_pc = "done"
    => /\ ~pf_result[1].panic
       /\ pf_result[1].ok
            => /\ counted_fees # <<>>
               /\ \A i \in 1..Len(counted_fees) : counted_fees[i] >= BASE_FEE
               /\ pf_result[1].output.average_priority_fee_lamports
                    = PrioritySum(counted_fees) \div Len(counted_fees)

\* the request in progress is Input::Latest / Input::Specific
LatestInput == pf_input # None /\ pf_input[1].kind = "Latest"
SpecificInput == pf_input # None /\ pf_input[1].kind = "Specific"

\* the listing select_blocks asks for, once it knows the latest slot
FixedListing ==
    LET n == pf_input[1].block_count
        back == n + (n \div BLOCK_COUNT_SLOT_MARGIN_DIV) + 1
    IN  <<"get_blocks_with_commitment",
          IF latest_slot[1] >= back THEN latest_slot[1] - back ELSE 0>>

\* C30: select_blocks. For Input::Specific it yields the given slots in the
\* given order and calls nothing. For Input::Latest with block_count n it
\* asks for the latest slot once, then asks for the listing from the same
\* start slot, latest - (n + n / BLOCK_COUNT_SLOT_MARGIN_DIV + 1) or 0,
\* again only after a listing of fewer than n slots, leaves the loop on
\* the first listing of n slots or more, and yields the last n slots of
\* that listing in its order. A failed call ends the request with an error
\* and no selection.
C30_SelectBlocks ==
    /\ [](/\ (SpecificInput /\ pf_pc = "selected")
               => /\ pf_selected = Some(pf_input[1].blocks)
                  /\ select_calls = <<>>
          /\ (LatestInput /\ select_calls # <<>>)
               => /\ select_calls[1] = GetSlotCall
                  /\ \A i \in 2..Len(select_calls) :
                        select_calls[i] = FixedListing
          /\ (LatestInput /\ pf_pc = "selected")
               => LET n == pf_input[1].block_count
                      len == Len(block_slots)
                  IN  /\ len >= n
                      /\ pf_selected # None
                      /\ Len(pf_selected[1]) = n
                      /\ \A i \in 1..n :
                            pf_selected[1][i] = block_slots[len - n + i]
          /\ (pf_result # None /\ ~pf_result[1].ok /\ ~pf_result[1].panic)
               => pf_selected = None)
    /\ [][/\ (pf_pc = "get_blocks" /\ pf_pc' = "get_blocks")
               => /\ Len(block_slots') < pf_input[1].block_count
                  /\ select_calls' = Append(select_calls, FixedListing)
          /\ (pf_pc = "get_blocks" /\ pf_pc' = "selected")
               => /\ Len(block_slots') >= pf_input[1].block_count
                  /\ select_calls' = select_calls
          /\ (pf_pc \in {"get_slot", "get_blocks"} /\ pf_pc' = "done")
               => /\ pf_result' = Some(PfErr)
                  /\ pf_selected' = None
          /\ pf_pc = "get_blocks"
               => pf_pc' \in {"get_blocks", "selected", "done"}]_vars

\* select_blocks, asked for the latest two blocks, listed twice from the
\* same start slot, got three slots the second time and yields the last
\* two of them
C30_Witness ==
    /\ LatestInput
    /\ pf_input[1].block_count = 2
    /\ pf_pc = "selected"
    /\ Len(select_calls) = 3
    /\ select_calls[2] = select_calls[3]
    /\ Len(block_slots) = 3
    /\ pf_selected = Some(<<block_slots[2], block_slots[3]>>)

===========================================================================
